---- MODULE Spec2Model ----
(***************************************************************************)
(* Curation engine of forme-app: the per-day Twitter call ledger           *)
(* (services/database + TwitterRateLimitService), the call allocator and   *)
(* the social phase (TwitterCurationService), the feed phase               *)
(* (RSSCurationService) and the unified orchestrator                       *)
(* (UnifiedContentCurationService.curateAllContent).                       *)
(*                                                                         *)
(* A run is an async function: it is modelled as a process whose position  *)
(* (pc) names the await it is suspended on; one action is the code that    *)
(* runs from the resumption of that await to the next await.               *)
(***************************************************************************)
EXTENDS Integers, Sequences, FiniteSets, Bags, TLC

(* ---- bounds of the model ---- *)
MaxSources == 2        \* rows of content_sources of the user
MaxFeedItems == 1      \* items a fetched feed carries
MaxDay == 2            \* calendar days (UTC) the model runs through
MaxSchedules == 2      \* calls of scheduleContentCuration
MaxAllocSources == 4   \* sources handed to distributeCalls called on its own
MaxPriority == 4       \* priorities of the sources handed to distributeCalls
MaxTotalCalls == 10    \* totalCalls handed to distributeCalls called on its own
MaxEntries == 22       \* entries of a document handed to parseRSSXML
MaxWords == 3          \* words of a text handed to the normalizers
DstChangeAt == 25      \* the hour (UTC, from 00:00 of day 1) at which the local offset changes

(* ---- program constants ---- *)
DAILY_LIMIT == 3
MAX_RETRIES == 2
FeedItemCap == 10
TweetCap == 1
RssItemCap == 20
EngagementThreshold == 1000
HoursPerDay == 24      \* 24 * 60 * 60 * 1000 ms, in the hours the model counts time in

Runs == {"r1", "r2"}
Days == 1..MaxDay
Platforms == {"twitter", "rss"}
Priorities == 1..3

Min(a, b) == IF a < b THEN a ELSE b
Max(a, b) == IF a > b THEN a ELSE b

RECURSIVE SumSeq(_)
SumSeq(s) == IF s = <<>> THEN 0 ELSE Head(s) + SumSeq(Tail(s))

CountEv(lg, e) == Len(SelectSeq(lg, LAMBDA x : x.ev = e))

(* ---- content_sources rows, in the order getUserSources returns them ---- *)
SourceRows(n) ==
  { s \in [1..n -> [platform : Platforms, priority : Priorities, is_active : BOOLEAN]] :
      \A k \in 1..(n-1) : s[k].priority <= s[k+1].priority }

MkSources(rows) ==
  [k \in 1..Len(rows) |->
     [id |-> k, platform |-> rows[k].platform, priority |-> rows[k].priority,
      is_active |-> rows[k].is_active]]

AllSourceLists == UNION { { MkSources(rows) : rows \in SourceRows(n) } : n \in 0..MaxSources }

\* the source lists of the two-caller specification: every row active, of tier 1
ConcSourceLists ==
  { l \in AllSourceLists : \A k \in 1..Len(l) : l[k].is_active /\ l[k].priority = 1 }

(* ---- Array.prototype.sort((a, b) => a.priority - b.priority): stable ---- *)
RECURSIVE InsertByPriority(_, _)
InsertByPriority(sorted, s) ==
  IF sorted = <<>> THEN <<s>>
  ELSE IF sorted[Len(sorted)].priority <= s.priority THEN Append(sorted, s)
  ELSE Append(InsertByPriority(SubSeq(sorted, 1, Len(sorted) - 1), s), sorted[Len(sorted)])

RECURSIVE SortByPriority(_)
SortByPriority(srcs) ==
  IF srcs = <<>> THEN <<>>
  ELSE InsertByPriority(SortByPriority(SubSeq(srcs, 1, Len(srcs) - 1)), srcs[Len(srcs)])

(* ---- TwitterCurationService.distributeCalls ---- *)
\* the forEach of one tier: each source gets min(callsPerSource, remainingCalls),
\* entries of 0 calls are not pushed; returns the entries and the calls left
\* variant: a source gets callsPerSource whatever is left
RECURSIVE TierLoop_NoCap(_, _, _, _)
TierLoop_NoCap(tier, callsPerSource, remainingCalls, acc) ==
  IF tier = <<>> THEN [result |-> acc, remainingCalls |-> remainingCalls]
  ELSE TierLoop_NoCap(Tail(tier), callsPerSource, remainingCalls - callsPerSource,
                      Append(acc, [source |-> Head(tier), callsToUse |-> callsPerSource]))

\* variant: an entry of 0 calls is pushed as well
RECURSIVE TierLoop_PushZero(_, _, _, _)
TierLoop_PushZero(tier, callsPerSource, remainingCalls, acc) ==
  IF tier = <<>> THEN [result |-> acc, remainingCalls |-> remainingCalls]
  ELSE LET calls == Min(callsPerSource, remainingCalls)
       IN TierLoop_PushZero(Tail(tier), callsPerSource, remainingCalls - calls,
                            Append(acc, [source |-> Head(tier), callsToUse |-> calls]))

RECURSIVE TierLoop(_, _, _, _)
TierLoop(tier, callsPerSource, remainingCalls, acc) ==
  IF tier = <<>> THEN [result |-> acc, remainingCalls |-> remainingCalls]
  ELSE LET calls == Min(callsPerSource, remainingCalls)
       IN IF calls > 0
          THEN TierLoop(Tail(tier), callsPerSource, remainingCalls - calls,
                        Append(acc, [source |-> Head(tier), callsToUse |-> calls]))
          ELSE TierLoop(Tail(tier), callsPerSource, remainingCalls, acc)

\* variant: the tiers are served from the lowest to the highest, a call each
distributeCalls_LowestTierFirst(srcs, totalCalls) ==
  IF totalCalls = 0 THEN <<>>
  ELSE
    LET priority1Sources == SelectSeq(srcs, LAMBDA s : s.priority = 1)
        priority2Sources == SelectSeq(srcs, LAMBDA s : s.priority = 2)
        priority3Sources == SelectSeq(srcs, LAMBDA s : s.priority = 3)
        afterP3 == TierLoop(priority3Sources, 1, totalCalls, <<>>)
        afterP2 == TierLoop(priority2Sources, 1, afterP3.remainingCalls, afterP3.result)
        afterP1 == TierLoop(priority1Sources, 1, afterP2.remainingCalls, afterP2.result)
    IN afterP1.result

\* variant: tier 1 is given the whole of totalCalls
distributeCalls_Tier1TakesAll(srcs, totalCalls) ==
  IF totalCalls = 0 THEN <<>>
  ELSE
    LET priority1Sources == SelectSeq(srcs, LAMBDA s : s.priority = 1)
        priority2Sources == SelectSeq(srcs, LAMBDA s : s.priority = 2)
        priority3Sources == SelectSeq(srcs, LAMBDA s : s.priority = 3)
        start == [result |-> <<>>, remainingCalls |-> totalCalls]
        afterP1 ==
          IF Len(priority1Sources) > 0 /\ start.remainingCalls > 0
          THEN LET callsForP1 == totalCalls
                   callsPerSource == Max(1, callsForP1 \div Len(priority1Sources))
               IN TierLoop(priority1Sources, callsPerSource, start.remainingCalls, start.result)
          ELSE start
        afterP2 ==
          IF Len(priority2Sources) > 0 /\ afterP1.remainingCalls > 0
          THEN LET callsForP2 == Max(1, (totalCalls * 35) \div 100)
                   callsPerSource == Max(1, callsForP2 \div Len(priority2Sources))
               IN TierLoop(priority2Sources, callsPerSource, afterP1.remainingCalls, afterP1.result)
          ELSE afterP1
        afterP3 ==
          IF Len(priority3Sources) > 0 /\ afterP2.remainingCalls > 0
          THEN LET callsPerSource == Max(1, afterP2.remainingCalls \div Len(priority3Sources))
               IN TierLoop(priority3Sources, callsPerSource, afterP2.remainingCalls, afterP2.result)
          ELSE afterP2
    IN afterP3.result

\* variant: tier 2 is given 35% of what tier 1 left
distributeCalls_Tier2OfRemaining(srcs, totalCalls) ==
  IF totalCalls = 0 THEN <<>>
  ELSE
    LET priority1Sources == SelectSeq(srcs, LAMBDA s : s.priority = 1)
        priority2Sources == SelectSeq(srcs, LAMBDA s : s.priority = 2)
        priority3Sources == SelectSeq(srcs, LAMBDA s : s.priority = 3)
        start == [result |-> <<>>, remainingCalls |-> totalCalls]
        afterP1 ==
          IF Len(priority1Sources) > 0 /\ start.remainingCalls > 0
          THEN LET callsForP1 == Max(1, totalCalls \div 2)
                   callsPerSource == Max(1, callsForP1 \div Len(priority1Sources))
               IN TierLoop(priority1Sources, callsPerSource, start.remainingCalls, start.result)
          ELSE start
        afterP2 ==
          IF Len(priority2Sources) > 0 /\ afterP1.remainingCalls > 0
          THEN LET callsForP2 == Max(1, (afterP1.remainingCalls * 35) \div 100)
                   callsPerSource == Max(1, callsForP2 \div Len(priority2Sources))
               IN TierLoop(priority2Sources, callsPerSource, afterP1.remainingCalls, afterP1.result)
          ELSE afterP1
        afterP3 ==
          IF Len(priority3Sources) > 0 /\ afterP2.remainingCalls > 0
          THEN LET callsPerSource == Max(1, afterP2.remainingCalls \div Len(priority3Sources))
               IN TierLoop(priority3Sources, callsPerSource, afterP2.remainingCalls, afterP2.result)
          ELSE afterP2
    IN afterP3.result

distributeCalls(srcs, totalCalls) ==
  IF totalCalls = 0 THEN <<>>
  ELSE
    LET priority1Sources == SelectSeq(srcs, LAMBDA s : s.priority = 1)
        priority2Sources == SelectSeq(srcs, LAMBDA s : s.priority = 2)
        priority3Sources == SelectSeq(srcs, LAMBDA s : s.priority = 3)
        start == [result |-> <<>>, remainingCalls |-> totalCalls]
        afterP1 ==
          IF Len(priority1Sources) > 0 /\ start.remainingCalls > 0
          THEN LET callsForP1 == Max(1, totalCalls \div 2)
                   callsPerSource == Max(1, callsForP1 \div Len(priority1Sources))
               IN TierLoop(priority1Sources, callsPerSource, start.remainingCalls, start.result)
          ELSE start
        afterP2 ==
          IF Len(priority2Sources) > 0 /\ afterP1.remainingCalls > 0
          THEN LET callsForP2 == Max(1, (totalCalls * 35) \div 100)
                   callsPerSource == Max(1, callsForP2 \div Len(priority2Sources))
               IN TierLoop(priority2Sources, callsPerSource, afterP1.remainingCalls, afterP1.result)
          ELSE afterP1
        afterP3 ==
          IF Len(priority3Sources) > 0 /\ afterP2.remainingCalls > 0
          THEN LET callsPerSource == Max(1, afterP2.remainingCalls \div Len(priority3Sources))
               IN TierLoop(priority3Sources, callsPerSource, afterP2.remainingCalls, afterP2.result)
          ELSE afterP2
    IN afterP3.result


(* ---- state ---- *)
VARIABLES
  sources,     \* content_sources rows of the user, ordered by priority (getUserSources)
  today,       \* new Date().toISOString().split('T')[0], as a day number
  usage,       \* api_usage_tracking rows of (user, 'twitter'): day -> calls_used
  store,       \* content_items: the bag of its rows, each its (source_id, platform_id)
  run,         \* per run of curateAllContent: its locals and the await it is suspended on
  recorded,    \* history: per day, the number of recordAPICall that persisted their write
  overlapped   \* history: two runs have been in progress at the same time

\* ContentSchedulerService and its clock. Time is counted in hours from 00:00 UTC
\* of day 1: every Date the scheduler compares is either an instant it reads or a
\* full local hour, so the comparisons at the instants h and h + x (0 <= x < 1)
\* agree.
VARIABLES
  clock,       \* new Date(), in hours
  tzRule,      \* the local time zone: its offsets to UTC and the hour they change at
  intervalId,  \* the setInterval of startScheduler is running
  jobHeap,     \* every ScheduledCurationJob object created so far (the ticks hold references)
  jobs,        \* this.jobs: the jobs of the list, as indexes into jobHeap
  tick         \* per activation of executeScheduledJobs: its locals

schedVars == <<clock, tzRule, intervalId, jobHeap, jobs, tick>>

\* a helper of the services called on its own
VARIABLES
  call         \* the call: the helper, its arguments and the value it returned

vars == <<sources, today, usage, store, run, recorded, overlapped,
          clock, tzRule, intervalId, jobHeap, jobs, tick, call>>

(* ---- what the network and the storage can answer ---- *)
FeedOutcomes ==
  { [ok |-> TRUE, n |-> k] : k \in 0..MaxFeedItems } \cup { [ok |-> FALSE, n |-> 0] }

\* getUserTweets: the posts, or a thrown Error. text429: the text of a non-429 error
\* (response body, handle) contains the characters "429". malformed: the post
\* carries no public_metrics.
TweetOutcomes ==
  { [kind |-> "ok", n |-> 0, malformed |-> FALSE, text429 |-> FALSE] }
  \cup { [kind |-> "ok", n |-> k, malformed |-> m, text429 |-> FALSE] :
           k \in 1..TweetCap, m \in BOOLEAN }
  \cup { [kind |-> "RateLimited", n |-> 0, malformed |-> FALSE, text429 |-> FALSE] }
  \cup { [kind |-> "Other", n |-> 0, malformed |-> FALSE, text429 |-> t] : t \in BOOLEAN }

NoTweets == [kind |-> "none", n |-> 0, malformed |-> FALSE, text429 |-> FALSE]

\* error.message.includes('429'): the message is `API Error: ${status} - ${body}`
MessageIncludes429(o) == o.kind = "RateLimited" \/ o.text429

(* ---- services/database: api_usage_tracking ---- *)
\* usage?.calls_used || 0 of the row getAPIUsage returns for the day
CallsUsed(d) == IF d \in DOMAIN usage THEN usage[d] ELSE 0

\* an upsert that ignores duplicates: the existing row of the day is left as it is
updateAPIUsage_IgnoreDuplicates(d, callsUsed) ==
  IF d \in DOMAIN usage THEN usage
  ELSE [x \in (DOMAIN usage) \cup {d} |-> IF x = d THEN callsUsed ELSE usage[x]]

\* updateAPIUsage: upsert of the row of the day
updateAPIUsage(d, callsUsed) ==
  [x \in (DOMAIN usage) \cup {d} |-> IF x = d THEN callsUsed ELSE usage[x]]

(* ---- TwitterRateLimitService ---- *)
\* the reason of a denial is its text and the numbers written into it:
\* `Daily limit reached (${dailyCalls}/${this.DAILY_LIMIT} calls used)`
\* variant: the reason of the limit names no count
canMakeAPICall_NoCounts(readOk, d) ==
  IF ~readOk THEN [canCall |-> FALSE, reason |-> "Error checking rate limit", reasonCounts |-> <<>>,
                   used |-> 0]
  ELSE IF CallsUsed(d) >= DAILY_LIMIT
       THEN [canCall |-> FALSE, reason |-> "Daily limit reached",
             reasonCounts |-> <<>>, used |-> CallsUsed(d)]
       ELSE [canCall |-> TRUE, reason |-> "", reasonCounts |-> <<>>, used |-> CallsUsed(d)]

\* the limit test written with > : a call is still allowed at the limit
canMakeAPICall_OffByOne(readOk, d) ==
  IF ~readOk THEN [canCall |-> FALSE, reason |-> "Error checking rate limit", reasonCounts |-> <<>>,
                   used |-> 0]
  ELSE IF CallsUsed(d) > DAILY_LIMIT
       THEN [canCall |-> FALSE, reason |-> "Daily limit reached",
             reasonCounts |-> <<CallsUsed(d), DAILY_LIMIT>>, used |-> CallsUsed(d)]
       ELSE [canCall |-> TRUE, reason |-> "", reasonCounts |-> <<>>, used |-> CallsUsed(d)]

canMakeAPICall(readOk, d) ==
  IF ~readOk THEN [canCall |-> FALSE, reason |-> "Error checking rate limit", reasonCounts |-> <<>>,
                   used |-> 0]
  ELSE IF CallsUsed(d) >= DAILY_LIMIT
       THEN [canCall |-> FALSE, reason |-> "Daily limit reached",
             reasonCounts |-> <<CallsUsed(d), DAILY_LIMIT>>, used |-> CallsUsed(d)]
       ELSE [canCall |-> TRUE, reason |-> "", reasonCounts |-> <<>>, used |-> CallsUsed(d)]

\* variant: one call more than the limit leaves
getRemainingCalls_OneMore(readOk, d) ==
  IF ~readOk THEN 0 ELSE Max(0, DAILY_LIMIT - CallsUsed(d)) + 1

\* variant: the calls used are not taken off the limit
getRemainingCalls_IgnoresUsed(readOk, d) ==
  IF ~readOk THEN 0 ELSE DAILY_LIMIT

getRemainingCalls(readOk, d) ==
  IF ~readOk THEN 0 ELSE Max(0, DAILY_LIMIT - CallsUsed(d))

\* no canMakeAPICall has returned yet
NoCheck == [canCall |-> FALSE, reason |-> "", reasonCounts |-> <<>>, used |-> 0, readOk |-> FALSE]

\* the value canMakeAPICall returned, with whether its getAPIUsage succeeded
Checked(readOk, d) ==
  [canCall |-> canMakeAPICall(readOk, d).canCall, reason |-> canMakeAPICall(readOk, d).reason,
   reasonCounts |-> canMakeAPICall(readOk, d).reasonCounts,
   used |-> canMakeAPICall(readOk, d).used, readOk |-> readOk]

(* ---- the locals of a run, and the steps between two awaits ---- *)
IdleRun(traced) ==
  [pc |-> "idle", traced |-> traced, rssSources |-> <<>>, twitterSources |-> <<>>, sourcesToFetch |-> <<>>,
   remainingCalls |-> 0, fetchedOk |-> 0,
   i |-> 0, retryCount |-> 0, contentItems |-> <<>>, allContentItems |-> <<>>,
   savedCount |-> 0, day |-> 0, newCount |-> 0, tweets |-> NoTweets,
   error |-> "", check |-> NoCheck, startTotal |-> 0, log |-> <<>>]

Active(s) == s.pc \notin {"absent", "idle", "done", "failed"}

\* onProgress?.(...) for the events whose name starts with "P:"; the other events
\* are the history of the network calls and timers the run has started. The
\* history is kept for the runs that are traced.
EmitN(s, e, src, n) ==
  IF s.traced THEN [s EXCEPT !.log = Append(@, [ev |-> e, src |-> src, n |-> n])] ELSE s

Emit(s, e, src) == EmitN(s, e, src, 0)

Item(sourceId, platformId) == [source_id |-> sourceId, platform_id |-> platformId]

(* ---- createContentItem: upsert on (source_id, platform_id), ignoreDuplicates false ---- *)
\* variant: a plain insert
createContentItem_Insert(rows, item) == rows (+) SetToBag({item})

\* the rows of content_items after the upsert has succeeded: a row of the same
\* key takes the values of the item, which are its key here; otherwise a new row
createContentItem(rows, item) ==
  IF BagIn(item, rows) THEN rows ELSE rows (+) SetToBag({item})

\* curateAllContent, the catch of the outer try: report, rethrow
FailRun(s, err) == [Emit(s, "P:curation_failed", 0) EXCEPT !.pc = "failed", !.error = err]

\* curateAllContent from "Save all content to database" to the first createContentItem
EnterSave(s) ==
  LET s1 == Emit(s, "P:saving", 0)
  IN IF s1.allContentItems = <<>>
     THEN [Emit(s1, "P:completed", 0) EXCEPT !.pc = "done"]
     ELSE [s1 EXCEPT !.pc = "saving", !.i = 1]

\* curateContentForUser returns; curateAllContent pushes its items
ReturnTwitter(s) ==
  LET s1 == Emit(s, "P:tw_completed", 0)
      s2 == [s1 EXCEPT !.allContentItems = @ \o s1.contentItems, !.contentItems = <<>>]
  IN EnterSave(Emit(s2, "P:tw_curation_complete", 0))

\* the head of one iteration of the loop over sourcesToFetch, up to getUserTweets
StartTwSource(s, k) ==
  LET src == s.sourcesToFetch[k].source.id
      s1 == Emit(Emit(s, "P:tw_fetching", src), "tw_fetch", src)
  IN [s1 EXCEPT !.i = k, !.retryCount = 0, !.tweets = NoTweets, !.pc = "tw_fetch"]

NextTwSource(s) ==
  IF s.i < Len(s.sourcesToFetch) THEN StartTwSource(s, s.i + 1) ELSE ReturnTwitter(s)

\* curateAllContent, "Curate Twitter content (with rate limiting)"
EnterTwitter(s) ==
  IF Len(s.twitterSources) > 0
  THEN [Emit(s, "P:tw_checking_limits", 0) EXCEPT !.pc = "tw_check", !.day = today]
  ELSE EnterSave(s)

\* curateRSSContent returns; curateAllContent pushes its items
ReturnRSS(s) ==
  LET s1 == Emit(s, "P:rss_completed", 0)
      s2 == [s1 EXCEPT !.allContentItems = @ \o s1.contentItems, !.contentItems = <<>>]
  IN EnterTwitter(Emit(s2, "P:rss_curation_complete", 0))

\* the head of one iteration of the loop over the feeds, up to fetchRSSFeed
StartFeed(s, k) ==
  LET src == s.rssSources[k].id
      s1 == Emit(Emit(s, "P:feed_fetching", src), "feed_fetch", src)
  IN [s1 EXCEPT !.i = k, !.pc = "feed_fetch"]

NextFeed(s) ==
  IF s.i < Len(s.rssSources) THEN StartFeed(s, s.i + 1) ELSE ReturnRSS(s)

\* a catch of the feed that rethrows: the error reaches curateAllContent
FeedFailed_Rethrow(s, src) == FailRun(Emit(s, "P:feed_failed", src), "RSS fetch failed")

\* curateRSSContent, the catch of one feed: report, go on with the next feed
FeedFailed(s, src) == NextFeed(Emit(s, "P:feed_failed", src))


\* a catch of the source that fetches the same source again
TweetFailed_Again(s, src) ==
  [Emit(Emit(s, "P:tw_failed", src), "tw_fetch", src)
     EXCEPT !.retryCount = 0, !.tweets = NoTweets, !.pc = "tw_fetch"]

\* a catch of the source that ends the whole loop instead of the iteration
TweetFailed_Abort(s, src) == ReturnTwitter(Emit(s, "P:tw_failed", src))

\* curateContentForUser, the catch of one source: report, go on with the next source
TweetFailed(s, src) == NextTwSource(Emit(s, "P:tw_failed", src))

\* curateContentForUser after recordAPICall has returned: transformTweetToContentItem
\* of each post (it throws on a post without public_metrics, which the catch of the
\* source reports), the success message, the pause before the next source
AfterRecord(s) ==
  LET src == s.sourcesToFetch[s.i].source.id
  IN IF s.tweets.n > 0 /\ s.tweets.malformed
     THEN TweetFailed(s, src)
     ELSE LET s1 == [s EXCEPT !.contentItems =
                        @ \o [k \in 1..s.tweets.n |-> Item(src, k)]]
              s2 == EmitN(s1, "P:tw_success", src, s.tweets.n)
          IN IF s2.i < Len(s2.sourcesToFetch)
             THEN [Emit(Emit(s2, "P:tw_waiting", 0), "tw_pause60", src)
                     EXCEPT !.pc = "tw_delay"]
             ELSE NextTwSource(s2)

\* variant: recordAPICall lets the error of incrementAPIUsage through, to the
\* catch of the source
RecordFailed_Rethrow(s) ==
  TweetFailed(Emit(s, "record_err", 0), s.sourcesToFetch[s.i].source.id)

\* recordAPICall: the catch logs the error of incrementAPIUsage and returns
RecordFailed(s) == AfterRecord(Emit(s, "record_err", 0))

SetRun(r, s) == run' = [run EXCEPT ![r] = s]

(* ---- actions ---- *)
\* the rows of api_usage_tracking earlier runs of the day have left
InitialUsage == { <<>> } \cup { [d \in {1} |-> k] : k \in 1..DAILY_LIMIT }

\* no activation of executeScheduledJobs
\* raised is history: the jobs of the activation whose executeCurationJob threw
IdleTick == [pc |-> "idle", now |-> 0, jobsToExecute |-> <<>>, k |-> 0, raised |-> 0]

\* the time zones of the model: UTC; one that falls back from UTC+1 to UTC; one
\* that springs forward from UTC to UTC+1
UTC == [at |-> 0, from |-> 0, to |-> 0]

TzRules ==
  { UTC,
    [at |-> DstChangeAt, from |-> 1, to |-> 0],
    [at |-> DstChangeAt, from |-> 0, to |-> 1] }

\* no helper has been called on its own
NoCall == [op |-> "none"]

\* the scheduler of a page that never schedules anything
NoScheduler ==
  /\ clock = 0
  /\ tzRule = UTC
  /\ intervalId = FALSE
  /\ jobHeap = <<>>
  /\ jobs = <<>>
  /\ tick = [r \in Runs |-> IdleTick]
  /\ call = NoCall

\* one caller of curateAllContent, traced
Init ==
  /\ sources \in AllSourceLists
  /\ today = 1
  /\ usage \in InitialUsage
  /\ store = EmptyBag
  /\ run = [r \in Runs |-> IF r = "r1" THEN IdleRun(TRUE)
                            ELSE [IdleRun(FALSE) EXCEPT !.pc = "absent"]]
  /\ recorded = [d \in Days |-> 0]
  /\ overlapped = FALSE
  /\ NoScheduler

\* two callers of curateAllContent for the same user (two tabs, a manual trigger
\* during a background run), untraced
InitConc ==
  /\ sources \in ConcSourceLists
  /\ today = 1
  /\ usage \in InitialUsage
  /\ store = EmptyBag
  /\ run = [r \in Runs |-> IdleRun(FALSE)]
  /\ recorded = [d \in Days |-> 0]
  /\ overlapped = FALSE
  /\ NoScheduler

\* curateAllContent is called: 'Loading user sources...', await getUserSources
Start(r) ==
  /\ run[r].pc = "idle"
  /\ SetRun(r, [Emit(run[r], "P:loading", 0) EXCEPT
                  !.pc = "loading", !.startTotal = SumSeq([d \in Days |-> CallsUsed(d)])])
  /\ overlapped' = (overlapped \/ \E o \in Runs \ {r} : Active(run[o]))
  /\ UNCHANGED <<sources, today, usage, store, recorded>>
  /\ UNCHANGED schedVars
  /\ UNCHANGED call

\* getUserSources returns and the empty list of active sources is not refused
LoadSourcesReturn_NoEmptyCheck(r) ==
  /\ run[r].pc = "loading"
  /\ \E ok \in BOOLEAN :
       LET s == run[r]
           activeSources == SelectSeq(sources, LAMBDA x : x.is_active)
           s1 == [s EXCEPT
                    !.twitterSources = SelectSeq(activeSources, LAMBDA x : x.platform = "twitter"),
                    !.rssSources = SelectSeq(activeSources, LAMBDA x : x.platform = "rss")]
           s2 == Emit(s1, "P:found_sources", 0)
       IN SetRun(r,
            IF ~ok THEN FailRun(s, "getUserSources failed")
            ELSE IF Len(s2.rssSources) > 0
                 THEN StartFeed(Emit(Emit(s2, "P:rss_start", 0), "P:rss_starting", 0), 1)
                 ELSE EnterTwitter(s2))
  /\ UNCHANGED <<sources, today, usage, store, recorded, overlapped>>
  /\ UNCHANGED schedVars
  /\ UNCHANGED call

\* getUserSources returns (or throws): filter, the NoActiveSources check, the split
LoadSourcesReturn(r) ==
  /\ run[r].pc = "loading"
  /\ \E ok \in BOOLEAN :
       LET s == run[r]
           activeSources == SelectSeq(sources, LAMBDA x : x.is_active)
           s1 == [s EXCEPT
                    !.twitterSources = SelectSeq(activeSources, LAMBDA x : x.platform = "twitter"),
                    !.rssSources = SelectSeq(activeSources, LAMBDA x : x.platform = "rss")]
           s2 == Emit(s1, "P:found_sources", 0)
       IN SetRun(r,
            IF ~ok THEN FailRun(s, "getUserSources failed")
            ELSE IF Len(activeSources) = 0 THEN FailRun(s, "No active content sources found")
            ELSE IF Len(s2.rssSources) > 0
                 THEN StartFeed(Emit(Emit(s2, "P:rss_start", 0), "P:rss_starting", 0), 1)
                 ELSE EnterTwitter(s2))
  /\ UNCHANGED <<sources, today, usage, store, recorded, overlapped>>
  /\ UNCHANGED schedVars
  /\ UNCHANGED call

\* fetchRSSFeed returns the feed or throws
FeedFetchReturn(r) ==
  /\ run[r].pc = "feed_fetch"
  /\ \E o \in FeedOutcomes :
       LET s == run[r]
           src == s.rssSources[s.i].id
           s1 == [s EXCEPT !.contentItems =
                     @ \o [k \in 1..Min(o.n, FeedItemCap) |-> Item(src, k)]]
           s2 == EmitN(s1, "P:feed_success", src, o.n)
       IN SetRun(r,
            IF o.ok
            THEN IF s2.i < Len(s2.rssSources)
                 THEN [Emit(s2, "feed_pause", src) EXCEPT !.pc = "feed_delay"]
                 ELSE NextFeed(s2)
            ELSE FeedFailed(s, src))
  /\ UNCHANGED <<sources, today, usage, store, recorded, overlapped>>
  /\ UNCHANGED schedVars
  /\ UNCHANGED call

\* the 1000 ms timer between two feeds fires
FeedDelayReturn(r) ==
  /\ run[r].pc = "feed_delay"
  /\ SetRun(r, NextFeed(run[r]))
  /\ UNCHANGED <<sources, today, usage, store, recorded, overlapped>>
  /\ UNCHANGED schedVars
  /\ UNCHANGED call

\* curateAllContent: canMakeAPICall returns
CanCallReturn(r) ==
  /\ run[r].pc = "tw_check"
  /\ \E readOk \in BOOLEAN :
       LET s == run[r]
           res == canMakeAPICall(readOk, s.day)
           s1 == [s EXCEPT !.check = Checked(readOk, s.day)]
       IN SetRun(r,
            IF res.canCall
            THEN [Emit(s1, "P:tw_start", 0) EXCEPT !.pc = "tw_check2", !.day = today]
            ELSE EnterSave(Emit(s1, "P:tw_rate_limited", 0)))
  /\ UNCHANGED <<sources, today, usage, store, recorded, overlapped>>
  /\ UNCHANGED schedVars
  /\ UNCHANGED call

\* curateContentForUser: its own canMakeAPICall returns; throw when denied, else
\* sort the sources and await getRemainingCalls
InnerCanCallReturn(r) ==
  /\ run[r].pc = "tw_check2"
  /\ \E readOk \in BOOLEAN :
       LET s == run[r]
           res == canMakeAPICall(readOk, s.day)
           s1 == [s EXCEPT !.check = Checked(readOk, s.day)]
       IN SetRun(r,
            IF ~res.canCall THEN FailRun(s1, res.reason)
            ELSE [s1 EXCEPT !.twitterSources = SortByPriority(@),
                            !.pc = "tw_remaining", !.day = today])
  /\ UNCHANGED <<sources, today, usage, store, recorded, overlapped>>
  /\ UNCHANGED schedVars
  /\ UNCHANGED call

\* getRemainingCalls returns: distributeCalls, then the first source
RemainingReturn(r) ==
  /\ run[r].pc = "tw_remaining"
  /\ \E readOk \in BOOLEAN :
       LET s == run[r]
           remainingCalls == getRemainingCalls(readOk, s.day)
           s1 == [s EXCEPT !.remainingCalls = remainingCalls,
                           !.sourcesToFetch = distributeCalls(s.twitterSources, remainingCalls),
                           !.contentItems = <<>>, !.i = 0]
           s2 == Emit(s1, "P:tw_starting", 0)
       IN SetRun(r, NextTwSource(s2))
  /\ UNCHANGED <<sources, today, usage, store, recorded, overlapped>>
  /\ UNCHANGED schedVars
  /\ UNCHANGED call

\* getUserTweets returns the posts or throws: the retry loop
TweetFetchReturn(r) ==
  /\ run[r].pc = "tw_fetch"
  /\ \E o \in TweetOutcomes :
       LET s == run[r]
           src == s.sourcesToFetch[s.i].source.id
       IN SetRun(r,
            IF o.kind = "ok"
            THEN [Emit(Emit(s, "tw_ok", src), "record_call", src)
                    EXCEPT !.tweets = o, !.fetchedOk = @ + 1,
                           !.pc = "tw_rec_read", !.day = today]
            ELSE LET s1 == Emit(s, IF o.kind = "RateLimited" THEN "tw_429" ELSE "tw_err", src)
                 IN IF MessageIncludes429(o) /\ s1.retryCount < MAX_RETRIES
                    THEN [Emit(Emit(s1, "P:tw_rate_limited_wait", src), "tw_wait15", src)
                            EXCEPT !.retryCount = @ + 1, !.pc = "tw_retry_wait"]
                    ELSE TweetFailed(s1, src))
  /\ UNCHANGED <<sources, today, usage, store, recorded, overlapped>>
  /\ UNCHANGED schedVars
  /\ UNCHANGED call

\* the 15 minute timer of a retry fires: getUserTweets again
RetryWaitReturn(r) ==
  /\ run[r].pc = "tw_retry_wait"
  /\ SetRun(r, [Emit(run[r], "tw_fetch", run[r].sourcesToFetch[run[r].i].source.id)
                  EXCEPT !.pc = "tw_fetch"])
  /\ UNCHANGED <<sources, today, usage, store, recorded, overlapped>>
  /\ UNCHANGED schedVars
  /\ UNCHANGED call

\* recordAPICall -> incrementAPIUsage: getAPIUsage returns the row, or throws and
\* recordAPICall swallows the error
RecordReadReturn(r) ==
  /\ run[r].pc = "tw_rec_read"
  /\ \E readOk \in BOOLEAN :
       LET s == run[r]
       IN SetRun(r,
            IF readOk
            THEN [s EXCEPT !.newCount = CallsUsed(s.day) + 1, !.pc = "tw_rec_write"]
            ELSE RecordFailed(s))
  /\ UNCHANGED <<sources, today, usage, store, recorded, overlapped>>
  /\ UNCHANGED schedVars
  /\ UNCHANGED call

\* incrementAPIUsage: updateAPIUsage returns, or throws and recordAPICall swallows
RecordWriteReturn(r) ==
  /\ run[r].pc = "tw_rec_write"
  /\ \E writeOk \in BOOLEAN :
       LET s == run[r]
       IN IF writeOk
          THEN /\ usage' = updateAPIUsage(s.day, s.newCount)
               /\ recorded' = [recorded EXCEPT ![s.day] = @ + 1]
               /\ SetRun(r, AfterRecord(Emit(s, "record_ok", 0)))
          ELSE /\ SetRun(r, RecordFailed(s))
               /\ UNCHANGED <<usage, recorded>>
  /\ UNCHANGED <<sources, today, store, overlapped>>
  /\ UNCHANGED schedVars
  /\ UNCHANGED call

\* the 60000 ms timer between two sources fires
SourceDelayReturn(r) ==
  /\ run[r].pc = "tw_delay"
  /\ SetRun(r, NextTwSource(run[r]))
  /\ UNCHANGED <<sources, today, usage, store, recorded, overlapped>>
  /\ UNCHANGED schedVars
  /\ UNCHANGED call

\* createContentItem returns or throws (the catch only warns)
SaveReturn(r) ==
  /\ run[r].pc = "saving"
  /\ \E saveOk \in BOOLEAN :
       LET s == run[r]
           s1 == IF saveOk THEN [s EXCEPT !.savedCount = @ + 1] ELSE s
       IN /\ store' = IF saveOk THEN createContentItem(store, s.allContentItems[s.i]) ELSE store
          /\ SetRun(r,
               IF s1.i < Len(s1.allContentItems)
               THEN [s1 EXCEPT !.i = @ + 1]
               ELSE [Emit(s1, "P:completed", 0) EXCEPT !.pc = "done"])
  /\ UNCHANGED <<sources, today, usage, recorded, overlapped>>
  /\ UNCHANGED schedVars
  /\ UNCHANGED call

\* midnight UTC
AdvanceDay ==
  /\ today < MaxDay
  /\ today' = today + 1
  /\ UNCHANGED <<sources, usage, store, run, recorded, overlapped>>
  /\ UNCHANGED schedVars
  /\ UNCHANGED call

\* one step of the run r of curateAllContent
RunStep(r) ==
  \/ Start(r)
  \/ LoadSourcesReturn(r)
  \/ FeedFetchReturn(r)
  \/ FeedDelayReturn(r)
  \/ CanCallReturn(r)
  \/ InnerCanCallReturn(r)
  \/ RemainingReturn(r)
  \/ TweetFetchReturn(r)
  \/ RetryWaitReturn(r)
  \/ RecordReadReturn(r)
  \/ RecordWriteReturn(r)
  \/ SourceDelayReturn(r)
  \/ SaveReturn(r)

Next ==
  \/ \E r \in Runs : RunStep(r)
  \/ AdvanceDay

\* one traced caller, over the days of the model
Spec == Init /\ [][Next]_vars

NextConc == \E r \in Runs : RunStep(r)

\* two callers within one calendar day
SpecConc == InitConc /\ [][NextConc]_vars

\* one traced caller within one calendar day, every await of which returns:
\* each step of a run is the return of the network call, the storage call or
\* the timer the run is suspended on
SpecLive == Init /\ [][NextConc]_vars /\ WF_vars(NextConc)

(* ---- ContentSchedulerService ---- *)
MaxClock == HoursPerDay * MaxDay - 1

\* the offset of local time to UTC, in hours, at the instant t
Offset(t) == IF tzRule.at = 0 \/ t < tzRule.at THEN tzRule.from ELSE tzRule.to

\* the instant at which the local clock shows the wall time w (hours from the
\* local 00:00 of day 1)
ToInstant(w) == CHOOSE t \in {w - 1, w} : t + Offset(t) = w

getOptimalSchedule ==
  << [hour |-> 9, priority |-> 1], [hour |-> 14, priority |-> 2], [hour |-> 19, priority |-> 3] >>

\* a schedule that never moves a time to the next day
scheduledTime_NoRollover(hour) ==
  ToInstant(((clock + Offset(clock)) \div HoursPerDay) * HoursPerDay + hour)

\* scheduleContentCuration, the body of the forEach: new Date(today), setHours(hour,
\* 0, 0, 0) in local time, and setDate(getDate() + 1), the same local hour of the
\* next local day, when that instant is not after new Date()
scheduledTime(hour) ==
  LET midnight == ((clock + Offset(clock)) \div HoursPerDay) * HoursPerDay
  IN IF ToInstant(midnight + hour) <= clock
     THEN ToInstant(midnight + HoursPerDay + hour)
     ELSE ToInstant(midnight + hour)

\* the push of scheduleContentCuration. started and pushedDuringTick are history:
\* executeCurationJob has been called for the job; the job was pushed while an
\* activation of executeScheduledJobs was awaiting a job
NewJob(e) ==
  [priority |-> e.priority, scheduledFor |-> scheduledTime(e.hour), executed |-> FALSE,
   started |-> FALSE, pushedDuringTick |-> \E r \in Runs : tick[r].pc = "running"]

\* executeScheduledJobs, the first filter
jobsToExecute(now) ==
  SelectSeq(jobs, LAMBDA j : ~jobHeap[j].executed /\ jobHeap[j].scheduledFor <= now)

\* a clean up that removes nothing
CleanUp_KeepAll(now, heap, list) == list

\* executeScheduledJobs, the clean up of executed jobs older than 24 hours
CleanUp(now, heap, list) ==
  SelectSeq(list, LAMBDA j : ~heap[j].executed \/ heap[j].scheduledFor > now - HoursPerDay)

\* a job that is left unexecuted when its executeCurationJob threw
MarkExecuted_UnlessRaised(heap, j, raised) ==
  IF raised THEN heap ELSE [heap EXCEPT ![j].executed = TRUE]

\* executeScheduledJobs: job.executed = true, after the await and in the catch
MarkExecuted(heap, j, raised) == [heap EXCEPT ![j].executed = TRUE]

\* executeCurationJob up to its first await, canMakeAPICall
JobRun == [IdleRun(FALSE) EXCEPT !.pc = "job_check", !.day = today]

\* the job the activation r of executeScheduledJobs is awaiting
JobOf(r) == tick[r].jobsToExecute[tick[r].k]

\* a filter of executeCurationJob that does not look at the tier
prioritySources_AnyTier(job) == SelectSeq(sources, LAMBDA s : s.is_active)

\* executeCurationJob: allSources.filter(s => s.is_active && s.priority === job.priority)
prioritySources(job) ==
  SelectSeq(sources, LAMBDA s : s.is_active /\ s.priority = job.priority)

\* the source list of the specifications of the job list: one active twitter source
\* of tier 1
SchedSourceLists ==
  { l \in AllSourceLists :
      Len(l) = 1 /\ l[1].is_active /\ l[1].platform = "twitter" /\ l[1].priority = 1 }

\* the page has loaded at 00:00 UTC of day 1; nothing is scheduled, no call of the
\* day is recorded
SchedulerLoaded(lists, rules) ==
  /\ sources \in lists
  /\ today = 1
  /\ usage = <<>>
  /\ store = EmptyBag
  /\ run = [r \in Runs |-> IdleRun(FALSE)]
  /\ recorded = [d \in Days |-> 0]
  /\ overlapped = FALSE
  /\ clock = 0
  /\ tzRule \in rules
  /\ intervalId = FALSE
  /\ jobHeap = <<>>
  /\ jobs = <<>>
  /\ tick = [r \in Runs |-> IdleTick]
  /\ call = NoCall

InitSched == SchedulerLoaded(SchedSourceLists, TzRules)

InitSchedConc == SchedulerLoaded(SchedSourceLists, {UTC})

InitSchedJob == SchedulerLoaded(AllSourceLists, {UTC})

\* startScheduler, called when the module loads in a browser
StartScheduler ==
  /\ ~intervalId
  /\ intervalId' = TRUE
  /\ UNCHANGED <<sources, today, usage, store, run, recorded, overlapped,
                 clock, tzRule, jobHeap, jobs, tick>>
  /\ UNCHANGED call

\* scheduleContentCuration(userId): three jobs, then startScheduler
ScheduleContentCuration ==
  /\ Len(jobHeap) < Len(getOptimalSchedule) * MaxSchedules
  /\ jobHeap' = jobHeap \o [k \in 1..Len(getOptimalSchedule) |-> NewJob(getOptimalSchedule[k])]
  /\ jobs' = jobs \o [k \in 1..Len(getOptimalSchedule) |-> Len(jobHeap) + k]
  /\ intervalId' = TRUE
  /\ UNCHANGED <<sources, today, usage, store, run, recorded, overlapped, clock, tzRule, tick>>
  /\ UNCHANGED call

\* the interval fires: executeScheduledJobs up to its first await, or to its end
\* when no job is due. The activation takes the first free slot.
TickFire(r) ==
  /\ intervalId
  /\ tick[r].pc = "idle"
  /\ r = "r1" \/ tick["r1"].pc # "idle"
  /\ LET due == jobsToExecute(clock)
     IN IF due = <<>>
        THEN /\ jobs' = CleanUp(clock, jobHeap, jobs)
             /\ UNCHANGED <<tick, jobHeap, run>>
        ELSE /\ tick' = [tick EXCEPT ![r] =
                           [pc |-> "running", now |-> clock, jobsToExecute |-> due, k |-> 1,
                            raised |-> 0]]
             /\ jobHeap' = [jobHeap EXCEPT ![due[1]].started = TRUE]
             /\ run' = [run EXCEPT ![r] = JobRun]
             /\ UNCHANGED jobs
  /\ UNCHANGED <<sources, today, usage, store, recorded, overlapped, clock, tzRule, intervalId>>
  /\ UNCHANGED call

\* executeCurationJob: canMakeAPICall returns; return when denied, else await
\* getUserSources
JobCanCallReturn(r) ==
  /\ run[r].pc = "job_check"
  /\ \E readOk \in BOOLEAN :
       LET s == run[r]
           res == canMakeAPICall(readOk, s.day)
           s1 == [s EXCEPT !.check = Checked(readOk, s.day)]
       IN SetRun(r, IF res.canCall THEN [s1 EXCEPT !.pc = "job_loading"]
                    ELSE [s1 EXCEPT !.pc = "done"])
  /\ UNCHANGED <<sources, today, usage, store, recorded, overlapped>>
  /\ UNCHANGED schedVars
  /\ UNCHANGED call

\* executeCurationJob: getUserSources returns or throws; the filter; return when no
\* source is left, else curateContentForUser up to its canMakeAPICall
JobLoadReturn(r) ==
  /\ run[r].pc = "job_loading"
  /\ \E ok \in BOOLEAN :
       LET s == run[r]
           srcs == prioritySources(jobHeap[JobOf(r)])
       IN SetRun(r,
            IF ~ok THEN FailRun(s, "getUserSources failed")
            ELSE IF Len(srcs) = 0 THEN [s EXCEPT !.pc = "done"]
            ELSE [s EXCEPT !.twitterSources = srcs, !.pc = "tw_check2", !.day = today])
  /\ UNCHANGED <<sources, today, usage, store, recorded, overlapped>>
  /\ UNCHANGED schedVars
  /\ UNCHANGED call

\* executeScheduledJobs: the await of executeCurationJob returns or throws; the job
\* is marked executed; the next job, or the clean up and the end of the activation
JobAwaitReturn(r) ==
  /\ tick[r].pc = "running"
  /\ run[r].pc \in {"done", "failed"}
  /\ LET j == JobOf(r)
         heap1 == MarkExecuted(jobHeap, j, run[r].pc = "failed")
     IN IF tick[r].k < Len(tick[r].jobsToExecute)
        THEN /\ jobHeap' = [heap1 EXCEPT ![tick[r].jobsToExecute[tick[r].k + 1]].started = TRUE]
             /\ tick' = [tick EXCEPT ![r].k = @ + 1,
                                     ![r].raised = @ + IF run[r].pc = "failed" THEN 1 ELSE 0]
             /\ run' = [run EXCEPT ![r] = JobRun]
             /\ UNCHANGED jobs
        ELSE /\ jobHeap' = heap1
             /\ jobs' = CleanUp(tick[r].now, heap1, jobs)
             /\ tick' = [tick EXCEPT ![r] = IdleTick]
             /\ run' = [run EXCEPT ![r] = IdleRun(FALSE)]
  /\ UNCHANGED <<sources, today, usage, store, recorded, overlapped, clock, tzRule, intervalId>>
  /\ UNCHANGED call

\* the instants after t at which a comparison or a conversion of the program changes
\* its value: 00:00 UTC (the date of the ledger), the change of the local offset, the
\* local hours of the schedule, the scheduled time of a job and 24 hours after it.
\* Between two of them every instant is treated alike by the program.
InstantsAfter(t) ==
  { x \in (t + 1)..MaxClock :
      \/ x % HoursPerDay = 0
      \/ x = tzRule.at
      \/ \E k \in 1..Len(getOptimalSchedule) :
           (x + Offset(x)) % HoursPerDay = getOptimalSchedule[k].hour
      \/ \E j \in 1..Len(jobHeap) :
           x = jobHeap[j].scheduledFor \/ x = jobHeap[j].scheduledFor + HoursPerDay }

\* time passes, up to the next of these instants; the UTC date changes at 00:00 UTC
ClockTick ==
  /\ InstantsAfter(clock) # {}
  /\ clock' = CHOOSE x \in InstantsAfter(clock) : \A y \in InstantsAfter(clock) : x <= y
  /\ today' = (clock' \div HoursPerDay) + 1
  /\ UNCHANGED <<sources, usage, store, run, recorded, overlapped,
                 tzRule, intervalId, jobHeap, jobs, tick>>
  /\ UNCHANGED call

\* one step of the curateContentForUser a job has called
JobCurationStep(r) ==
  \/ InnerCanCallReturn(r)
  \/ RemainingReturn(r)
  \/ TweetFetchReturn(r)
  \/ RetryWaitReturn(r)
  \/ RecordReadReturn(r)
  \/ RecordWriteReturn(r)
  \/ SourceDelayReturn(r)
  \/ SaveReturn(r)

\* one step of the job an activation is executing
JobStep(r) ==
  \/ JobCanCallReturn(r)
  \/ JobLoadReturn(r)
  \/ JobCurationStep(r)
  \/ JobAwaitReturn(r)

\* the same for a user with one source: sourcesToFetch has at most one entry, and
\* the pause between two sources is never started
OneSourceJobStep(r) ==
  \/ JobCanCallReturn(r)
  \/ JobLoadReturn(r)
  \/ InnerCanCallReturn(r)
  \/ RemainingReturn(r)
  \/ TweetFetchReturn(r)
  \/ RetryWaitReturn(r)
  \/ RecordReadReturn(r)
  \/ RecordWriteReturn(r)
  \/ SaveReturn(r)
  \/ JobAwaitReturn(r)

NextSched ==
  \/ StartScheduler
  \/ ScheduleContentCuration
  \/ ClockTick
  \/ \E r \in Runs : TickFire(r) /\ \A o \in Runs : tick[o].pc = "idle"
  \/ \E r \in Runs : OneSourceJobStep(r)

\* the scheduler of a user with one source, over the time zones and the days of the
\* model, every activation of executeScheduledJobs ending before the interval fires
\* again
SpecSched == InitSched /\ [][NextSched]_vars

NextSchedConc ==
  \/ StartScheduler
  \/ ScheduleContentCuration /\ jobHeap = <<>>
  \/ ClockTick /\ clock' < HoursPerDay
  \/ \E r \in Runs : TickFire(r)
  \/ \E r \in Runs : OneSourceJobStep(r)

\* the first day of the scheduler of one user with one source, the interval firing
\* also while an earlier activation is awaiting a job
SpecSchedConc == InitSchedConc /\ [][NextSchedConc]_vars

NextSchedJob ==
  \/ StartScheduler
  \/ ScheduleContentCuration /\ jobHeap = <<>>
  \/ ClockTick /\ clock' < HoursPerDay
  \/ \E r \in Runs : TickFire(r) /\ \A o \in Runs : tick[o].pc = "idle"
  \/ \E r \in Runs : JobStep(r)

\* the jobs of the first day, over the source lists of the model
SpecSchedJob == InitSchedJob /\ [][NextSchedJob]_vars


(* ======================================================================= *)
(* Properties                                                              *)
(* ======================================================================= *)

\* fetchedOk is history: the getUserTweets calls of the run that returned posts
\* the run has returned or thrown
Ended(s) == s.pc \in {"done", "failed"}

\* calls_used summed over the days of the model
TotalUsage == SumSeq([d \in Days |-> IF d \in DOMAIN usage THEN usage[d] ELSE 0])

\* a recordAPICall of the run is awaiting its read or its write
RecordInFlight(s) == IF s.pc \in {"tw_rec_read", "tw_rec_write"} THEN 1 ELSE 0

(* C1: the stored calls_used of a day never decreases, whatever the interleaving
   of the recordAPICall of two overlapping runs: every step leaves each existing
   row in place with a count at least its previous value. *)
C1_UsageNeverDecreases ==
  [][\A d \in DOMAIN usage : d \in DOMAIN usage' /\ usage'[d] >= usage[d]]_vars

(* C2 as stated: when a run has ended, the stored usage equals the usage at its
   start plus the number of social sources whose fetch succeeded. *)
C2_UsageGrowsBySuccesses ==
  \A r \in Runs :
    (run[r].traced /\ Ended(run[r]) /\ ~overlapped) =>
      TotalUsage = run[r].startTotal + CountEv(run[r].log, "tw_ok")

(* C2 amended: recordAPICall is issued exactly once per social source whose fetch
   succeeded (whatever the retries and the number of posts) and never for a source
   whose fetch failed; each recordAPICall that persists raises the stored usage by
   exactly 1 and one whose read or write fails leaves it unchanged; so after a run
   not overlapped by another run, all of whose recordAPICall persisted, the usage
   is the usage at its start plus the number of successfully fetched sources. *)
C2_OneRecordPerSuccess ==
  \A r \in Runs :
    (run[r].traced /\ run[r].pc # "idle" /\ ~overlapped) =>
      /\ CountEv(run[r].log, "record_call") = CountEv(run[r].log, "tw_ok")
      /\ CountEv(run[r].log, "record_call") =
           CountEv(run[r].log, "record_ok") + CountEv(run[r].log, "record_err")
             + RecordInFlight(run[r])
      /\ TotalUsage = run[r].startTotal + CountEv(run[r].log, "record_ok")
      /\ (Ended(run[r]) /\ CountEv(run[r].log, "record_err") = 0) =>
           TotalUsage = run[r].startTotal + CountEv(run[r].log, "tw_ok")

\* a run ended after a source that succeeded on a retry and a source that failed,
\* with every recordAPICall persisted
C2_Witness ==
  \E r \in Runs :
    /\ run[r].traced /\ run[r].pc = "done"
    /\ CountEv(run[r].log, "tw_429") >= 1
    /\ CountEv(run[r].log, "tw_ok") >= 1
    /\ CountEv(run[r].log, "P:tw_failed") >= 1
    /\ CountEv(run[r].log, "record_err") = 0
    /\ TotalUsage = run[r].startTotal + 1

(* C3: once 3 recordAPICall have persisted on a day, canMakeAPICall denies for
   that day. *)
C3_DeniedAfterLimitRecorded ==
  \A d \in Days :
    recorded[d] >= DAILY_LIMIT =>
      \A readOk \in BOOLEAN : ~canMakeAPICall(readOk, d).canCall

\* a canMakeAPICall of the run r returns in this step
CanCallReturns(r) ==
  /\ run[r].pc \in {"tw_check", "tw_check2"}
  /\ run'[r].pc # run[r].pc

(* C4 as stated: canMakeAPICall allows exactly when the count stored for the day
   of the call is below 3 (no row counts as 0). *)
C4_AllowedIffBelowLimit ==
  [][\A r \in Runs :
       CanCallReturns(r) =>
         (run'[r].check.canCall <=>
            (IF run[r].day \in DOMAIN usage THEN usage[run[r].day] ELSE 0) < 3)]_vars

(* C4 amended: when the read of the usage row succeeds, canMakeAPICall allows
   exactly when the count stored for the day of the call is below 3, no row
   counting as 0 and rows of other days not counting; when the read fails it
   denies. *)
C4_AllowedIffBelowLimitWhenRead ==
  [][\A r \in Runs :
       CanCallReturns(r) =>
         /\ run'[r].check.readOk =>
              (run'[r].check.canCall <=>
                 (IF run[r].day \in DOMAIN usage THEN usage[run[r].day] ELSE 0) < 3)
         /\ ~run'[r].check.readOk => ~run'[r].check.canCall]_vars

\* a call was allowed on a day without a row while the day before is at the limit
C4_Witness ==
  \E r \in Runs :
    /\ run[r].pc = "tw_check2" /\ run[r].check.canCall
    /\ run[r].day \notin DOMAIN usage
    /\ \E d \in DOMAIN usage : d < run[r].day /\ usage[d] >= 3

(* C5: quota exhaustion never raises to the caller of curateAllContent: no run
   ends failed with the denial of the daily limit, also when another run uses
   the quota up between the check of curateAllContent and the social phase. *)
C5_QuotaNeverRaises ==
  \A r \in Runs : run[r].pc = "failed" => run[r].error # "Daily limit reached"


\* the positions of the log that hold the event e
Positions(lg, e) == { k \in 1..Len(lg) : lg[k].ev = e }

\* the sources of the events e of the log, in the order of the log
RECURSIVE SrcsOf(_, _)
SrcsOf(lg, e) ==
  IF lg = <<>> THEN <<>>
  ELSE IF Head(lg).ev = e THEN <<Head(lg).src>> \o SrcsOf(Tail(lg), e)
  ELSE SrcsOf(Tail(lg), e)

IsPrefix(a, b) == Len(a) <= Len(b) /\ \A k \in 1..Len(a) : a[k] = b[k]

\* the items the success messages of the log announce, in the order of the log
RECURSIVE ItemsOfSucceeded(_)
ItemsOfSucceeded(lg) ==
  IF lg = <<>> THEN <<>>
  ELSE IF Head(lg).ev = "P:feed_success"
       THEN [k \in 1..Min(Head(lg).n, 10) |-> Item(Head(lg).src, k)]
              \o ItemsOfSucceeded(Tail(lg))
  ELSE IF Head(lg).ev = "P:tw_success"
       THEN [k \in 1..Head(lg).n |-> Item(Head(lg).src, k)] \o ItemsOfSucceeded(Tail(lg))
  ELSE ItemsOfSucceeded(Tail(lg))

\* the awaits of the two loops over the sources, and of the save loop
PerSourcePcs ==
  {"feed_fetch", "feed_delay", "tw_fetch", "tw_retry_wait", "tw_rec_read",
   "tw_rec_write", "tw_delay", "saving"}

(* C6: no step that handles the result of a fetch, a wait, a ledger write or a
   save of one source ends the run failed, and the items of a run that is done are
   exactly the items of the sources that reported success, in order. *)
C6_SourceErrorsNeverFail ==
  /\ [][\A r \in Runs : run[r].pc \in PerSourcePcs => run'[r].pc # "failed"]_vars
  /\ [](\A r \in Runs :
          (run[r].traced /\ run[r].pc \in {"saving", "done"}) =>
            run[r].allContentItems = ItemsOfSucceeded(run[r].log))

\* a run is done although its only feed and its only social source failed
C6_Witness ==
  \E r \in Runs :
    /\ run[r].traced /\ run[r].pc = "done"
    /\ CountEv(run[r].log, "P:feed_failed") = 1
    /\ CountEv(run[r].log, "P:tw_failed") = 1
    /\ CountEv(run[r].log, "P:feed_success") = 0
    /\ CountEv(run[r].log, "P:tw_success") = 0
    /\ run[r].allContentItems = <<>>

\* the ids of the feeds, and of the allocated social sources, of a run
FeedIds(s) == [k \in 1..Len(s.rssSources) |-> s.rssSources[k].id]
AllocatedIds(s) == [k \in 1..Len(s.sourcesToFetch) |-> s.sourcesToFetch[k].source.id]

(* C7: the feeds are started in list order and so are the allocated social
   sources, each once; when the run has ended every feed and every allocated
   source has been started, whatever failed before it, and each has reported
   either its success or its failure, once. *)
C7_EverySourceAttemptedOnce ==
  \A r \in Runs :
    run[r].traced =>
      LET lg == run[r].log
          feeds == SrcsOf(lg, "P:feed_fetching")
          socials == SrcsOf(lg, "P:tw_fetching")
      IN /\ IsPrefix(feeds, FeedIds(run[r]))
         /\ IsPrefix(socials, AllocatedIds(run[r]))
         /\ Ended(run[r]) =>
              /\ feeds = FeedIds(run[r])
              /\ socials = AllocatedIds(run[r])
              /\ \A k \in 1..Len(feeds) :
                   Cardinality({ j \in 1..Len(lg) :
                     lg[j].ev \in {"P:feed_success", "P:feed_failed"} /\ lg[j].src = feeds[k] }) = 1
              /\ \A k \in 1..Len(socials) :
                   Cardinality({ j \in 1..Len(lg) :
                     lg[j].ev \in {"P:tw_success", "P:tw_failed"} /\ lg[j].src = socials[k] }) = 1

\* a run is done with two allocated social sources, the first of which failed
C7_Witness ==
  \E r \in Runs :
    /\ run[r].traced /\ run[r].pc = "done"
    /\ Len(run[r].sourcesToFetch) = 2
    /\ \E j \in Positions(run[r].log, "P:tw_failed") :
         run[r].log[j].src = run[r].sourcesToFetch[1].source.id
    /\ SrcsOf(run[r].log, "P:tw_fetching") = AllocatedIds(run[r])

(* C8: a fetch is retried only after a RateLimited (429) error, at most 2 times
   per source, each retry after one 15 minute wait; a non-429 error ends the
   attempts of the source and is reported as its failure. *)
C8_RetryOnlyAfter429 ==
  \A r \in Runs :
    run[r].traced =>
      LET lg == run[r].log
      IN /\ \A k \in Positions(lg, "tw_wait15") : k > 2 /\ lg[k-2].ev = "tw_429"
         /\ \A k \in Positions(lg, "tw_err") : k < Len(lg) /\ lg[k+1].ev = "P:tw_failed"
         /\ \A k \in Positions(lg, "P:tw_fetching") :
              Cardinality({ j \in Positions(lg, "tw_fetch") : lg[j].src = lg[k].src })
                <= MAX_RETRIES + 1

\* between the positions a < b of the log, the number of events e
Between(lg, a, b, e) == Cardinality({ j \in Positions(lg, e) : a < j /\ j < b })

\* the positions a < b hold two consecutive events e of the log
Consecutive(lg, a, b, e) ==
  /\ a \in Positions(lg, e) /\ b \in Positions(lg, e) /\ a < b
  /\ Between(lg, a, b, e) = 0

(* C9: between two consecutive allocated social sources there is one 60 second
   pause, whether the earlier source succeeded or failed, and no pause follows
   the last source. *)
C9_PauseBetweenSocialSources ==
  \A r \in Runs :
    run[r].traced =>
      LET lg == run[r].log
          last == Positions(lg, "P:tw_fetching")
      IN /\ \A a, b \in 1..Len(lg) :
              Consecutive(lg, a, b, "P:tw_fetching") => Between(lg, a, b, "tw_pause60") = 1
         /\ \A a \in last :
              (Len(SrcsOf(lg, "P:tw_fetching")) = Len(run[r].sourcesToFetch)
                 /\ \A b \in last : b <= a)
                => Between(lg, a, Len(lg) + 1, "tw_pause60") = 0

(* C10: between two consecutive feed fetches of a run there is one 1 second
   pause, whether the earlier feed succeeded or failed, and no pause follows the
   last feed. *)
C10_PauseBetweenFeeds ==
  \A r \in Runs :
    run[r].traced =>
      LET lg == run[r].log
          last == Positions(lg, "feed_fetch")
      IN /\ \A a, b \in 1..Len(lg) :
              Consecutive(lg, a, b, "feed_fetch") => Between(lg, a, b, "feed_pause") = 1
         /\ \A a \in last :
              (Len(SrcsOf(lg, "feed_fetch")) = Len(run[r].rssSources)
                 /\ \A b \in last : b <= a)
                => Between(lg, a, Len(lg) + 1, "feed_pause") = 0

\* the user has no active row in content_sources
NoActiveSource == \A k \in 1..Len(sources) : ~sources[k].is_active

(* ---- two curations of the feeds of a user, one store ---- *)
\* the source lists of the persistence specification: every row an active feed
PersistSourceLists ==
  { l \in AllSourceLists : \A k \in 1..Len(l) : l[k].is_active /\ l[k].platform = "rss" }

InitPersist ==
  /\ sources \in PersistSourceLists
  /\ today = 1
  /\ usage = <<>>
  /\ store = EmptyBag
  /\ run = [r \in Runs |-> IdleRun(FALSE)]
  /\ recorded = [d \in Days |-> 0]
  /\ overlapped = FALSE
  /\ NoScheduler

\* the steps of curateAllContent a user without social sources goes through
FeedRunStep(r) ==
  \/ Start(r)
  \/ LoadSourcesReturn(r)
  \/ FeedFetchReturn(r)
  \/ FeedDelayReturn(r)
  \/ SaveReturn(r)

NextPersist == \E r \in Runs : FeedRunStep(r)

SpecPersist == InitPersist /\ [][NextPersist]_vars

(* ---- api/rss.ts: parseRSSXML ---- *)
\* a text is the sequence of its pieces: a visible character "x", a white space
\* " ", an HTML tag, an entity; a field of an entry is a text, or NoElement when
\* the entry has no such element
Tags == {"<b>", "</b>"}
NoElement == <<"no element">>
FieldValues ==
  { NoElement, <<" ", " ">>, <<"<b>", "&nbsp;", "</b>">>,
    <<"<b>", "x", " ", " ", "&amp;", "</b>">> }

\* match?.[1] || ''
Raw(field) == IF field = NoElement THEN <<>> ELSE field

RECURSIVE CollapseSpaces(_)
CollapseSpaces(text) ==
  IF Len(text) < 2 THEN text
  ELSE IF text[1] = " " /\ text[2] = " " THEN CollapseSpaces(Tail(text))
  ELSE <<text[1]>> \o CollapseSpaces(Tail(text))

RECURSIVE Trim(_)
Trim(text) ==
  IF text = <<>> THEN text
  ELSE IF Head(text) = " " THEN Trim(Tail(text))
  ELSE IF text[Len(text)] = " " THEN Trim(SubSeq(text, 1, Len(text) - 1))
  ELSE text

\* cleanText: tags removed, entities decoded, white space collapsed, trimmed
cleanText(text) ==
  LET untagged == SelectSeq(text, LAMBDA c : c \notin Tags)
      decoded == [k \in 1..Len(untagged) |->
                    CASE untagged[k] = "&nbsp;" -> " "
                      [] untagged[k] = "&amp;" -> "&"
                      [] OTHER -> untagged[k]]
  IN Trim(CollapseSpaces(decoded))

Null == [null |-> TRUE]

\* variant: an item is skipped as soon as its title is empty
parseRSSItem_SkipsUntitled(itemXml) ==
  LET title == cleanText(Raw(itemXml.title))
      description == cleanText(Raw(itemXml.description))
  IN IF title = <<>> THEN Null
     ELSE [title |-> title, description |-> description, guid |-> itemXml.guid]

parseRSSItem(itemXml) ==
  LET title == cleanText(Raw(itemXml.title))
      description == cleanText(Raw(itemXml.description))
  IN IF title = <<>> /\ description = <<>> THEN Null
     ELSE [title |-> title, description |-> description, guid |-> itemXml.guid]

\* the description of an Atom entry is its summary, or its content when the
\* summary is missing or the empty string
parseAtomEntry(entryXml) ==
  LET title == cleanText(Raw(entryXml.title))
      description == cleanText(IF Raw(entryXml.description) # <<>>
                               THEN Raw(entryXml.description) ELSE Raw(entryXml.content))
  IN IF title = <<>> /\ description = <<>> THEN Null
     ELSE [title |-> title, description |-> description, guid |-> entryXml.guid]

\* xmlText.includes('<feed') || xmlText.includes(the Atom namespace)
IsAtom(doc) == doc.feedMarker

\* the matches of /<entry[^>]*>.*?<\/entry>/gis or /<item[^>]*>.*?<\/item>/gis,
\* in the order of the document
ItemMatches(doc) ==
  IF doc.tag = (IF IsAtom(doc) THEN "entry" ELSE "item") THEN doc.entries ELSE <<>>

parseRSSXML(doc) ==
  LET itemMatches == ItemMatches(doc)
      parsed == [i \in 1..Min(Len(itemMatches), RssItemCap) |->
                   IF IsAtom(doc) THEN parseAtomEntry(itemMatches[i])
                   ELSE parseRSSItem(itemMatches[i])]
  IN [items |-> SelectSeq(parsed, LAMBDA item : item # Null)]

(* ---- parseRSSXML called on its own ---- *)
EntryShapes ==
  [title : FieldValues, description : FieldValues, content : {NoElement, <<"x">>}]

\* the shape of the entries of a document at the places that are not marked
BaseShapes ==
  { [title |-> <<"<b>", "x", " ", " ", "&amp;", "</b>">>, description |-> NoElement,
     content |-> NoElement],
    [title |-> NoElement, description |-> <<" ", " ">>, content |-> NoElement] }

MarkedPlaces == SUBSET {1, RssItemCap, RssItemCap + 1}

\* RSS, RSS whose text holds "<feed" (an element such as <feedburner:info>), Atom
DocumentKinds ==
  { [tag |-> "item", feedMarker |-> FALSE], [tag |-> "item", feedMarker |-> TRUE],
    [tag |-> "entry", feedMarker |-> TRUE] }

\* the documents: n entries, the guid of the i-th being i, of one shape at the
\* marked places and of a base shape elsewhere
Documents ==
  { [tag |-> kind.tag, feedMarker |-> kind.feedMarker,
     entries |-> [i \in 1..n |->
                    LET shape == IF i \in marked THEN at ELSE base
                    IN [guid |-> i, title |-> shape.title,
                        description |-> shape.description, content |-> shape.content]]] :
      kind \in DocumentKinds, n \in 0..MaxEntries, marked \in MarkedPlaces,
      at \in EntryShapes, base \in BaseShapes }

InitParse ==
  /\ sources = <<>>
  /\ today = 1
  /\ usage = <<>>
  /\ store = EmptyBag
  /\ run = [r \in Runs |-> IdleRun(FALSE)]
  /\ recorded = [d \in Days |-> 0]
  /\ overlapped = FALSE
  /\ NoScheduler

CallParseRSSXML ==
  \E doc \in Documents :
    /\ call = NoCall
    /\ call' = [op |-> "parseRSSXML", doc |-> doc, feed |-> parseRSSXML(doc)]
    /\ UNCHANGED <<sources, today, usage, store, run, recorded, overlapped, schedVars>>

NextParse == CallParseRSSXML

SpecParse == InitParse /\ [][NextParse]_vars

(* ---- the normalizers: transformTweetToContentItem, transformRSSItemToContentItem ---- *)
\* a text is the sequence of its words; AlarmEmoji stands for the character U+1F6A8
AlarmEmoji == "alarm emoji"
Words ==
  { "breaking", "urgent", "confirmed", AlarmEmoji, "transfer", "signs", "deal", "joins",
    "team", "squad", "lineup", "training", "BREAKING", "Transfer", "Squad", "match" }

toLowerCase(text) ==
  [k \in 1..Len(text) |->
     CASE text[k] = "BREAKING" -> "breaking"
       [] text[k] = "Transfer" -> "transfer"
       [] text[k] = "Squad" -> "squad"
       [] OTHER -> text[k]]

\* text.includes(keyword)
includes(text, keyword) == \E k \in 1..Len(text) : text[k] = keyword

\* variant: the transfer keywords are tested first
transformTweetToContentItem_TransferFirst(tweet) ==
  LET totalEngagement == tweet.public_metrics.like_count + tweet.public_metrics.retweet_count
                           + tweet.public_metrics.reply_count + tweet.public_metrics.quote_count
      text == toLowerCase(tweet.text)
      contentType ==
        IF includes(text, "transfer") \/ includes(text, "signs") \/ includes(text, "deal")
        THEN "transfer"
        ELSE IF includes(text, "breaking") \/ includes(text, AlarmEmoji)
                \/ totalEngagement > EngagementThreshold
        THEN "breaking"
        ELSE IF includes(text, "team") \/ includes(text, "squad") \/ includes(text, "lineup")
        THEN "team"
        ELSE "general"
  IN [engagement_count |-> totalEngagement, is_breaking_news |-> contentType = "breaking",
      content_type |-> contentType]

transformTweetToContentItem(tweet) ==
  LET totalEngagement == tweet.public_metrics.like_count + tweet.public_metrics.retweet_count
                           + tweet.public_metrics.reply_count + tweet.public_metrics.quote_count
      text == toLowerCase(tweet.text)
      contentType ==
        IF includes(text, "breaking") \/ includes(text, AlarmEmoji)
           \/ totalEngagement > EngagementThreshold
        THEN "breaking"
        ELSE IF includes(text, "transfer") \/ includes(text, "signs") \/ includes(text, "deal")
        THEN "transfer"
        ELSE IF includes(text, "team") \/ includes(text, "squad") \/ includes(text, "lineup")
        THEN "team"
        ELSE "general"
  IN [engagement_count |-> totalEngagement, is_breaking_news |-> contentType = "breaking",
      content_type |-> contentType]

transformRSSItemToContentItem(rssItem) ==
  LET text == toLowerCase(rssItem.title \o rssItem.description)
      contentType ==
        IF includes(text, "breaking") \/ includes(text, "urgent") \/ includes(text, "confirmed")
        THEN "breaking"
        ELSE IF includes(text, "transfer") \/ includes(text, "signs") \/ includes(text, "deal")
                \/ includes(text, "joins")
        THEN "transfer"
        ELSE IF includes(text, "team") \/ includes(text, "squad") \/ includes(text, "lineup")
                \/ includes(text, "training")
        THEN "team"
        ELSE "general"
  IN [is_breaking_news |-> contentType = "breaking", content_type |-> contentType]

(* ---- the normalizers called on their own ---- *)
Texts == UNION { [1..n -> Words] : n \in 0..MaxWords }

\* like, retweet, reply and quote counts whose sums lie on both sides of the threshold
PublicMetrics ==
  [like_count : {0, EngagementThreshold}, retweet_count : {0, 1},
   reply_count : {0}, quote_count : {0}]

InitNormalize == InitParse

\* the two normalizers on the same text: a post whose text it is, and a feed
\* item whose title and description are its two parts
CallNormalizers ==
  /\ call = NoCall
  /\ \E text \in Texts, metrics \in PublicMetrics :
       \E cut \in 0..Len(text) :
         LET tweet == [text |-> text, public_metrics |-> metrics]
             rssItem == [title |-> SubSeq(text, 1, cut),
                         description |-> SubSeq(text, cut + 1, Len(text))]
         IN call' = [op |-> "normalize", tweet |-> tweet, rssItem |-> rssItem,
                     social |-> transformTweetToContentItem(tweet),
                     feed |-> transformRSSItemToContentItem(rssItem)]
  /\ UNCHANGED <<sources, today, usage, store, run, recorded, overlapped, schedVars>>

NextNormalize == CallNormalizers

SpecNormalize == InitNormalize /\ [][NextNormalize]_vars

(* ---- distributeCalls called on its own ---- *)
\* the source lists handed to distributeCalls: any order, priorities 1..MaxPriority
\* (the Sources page gives the n-th source added the priority n)
AllocSourceLists ==
  UNION { [1..n -> [priority : 1..MaxPriority]] : n \in 0..MaxAllocSources }

AllocSources(rows) == [k \in 1..Len(rows) |-> [id |-> k, priority |-> rows[k].priority]]

InitAlloc ==
  /\ sources = <<>>
  /\ today = 1
  /\ usage = <<>>
  /\ store = EmptyBag
  /\ run = [r \in Runs |-> IdleRun(FALSE)]
  /\ recorded = [d \in Days |-> 0]
  /\ overlapped = FALSE
  /\ NoScheduler

CallDistributeCalls ==
  \E rows \in AllocSourceLists, totalCalls \in 0..MaxTotalCalls :
    /\ call = NoCall
    /\ call' = [op |-> "distributeCalls", sources |-> AllocSources(rows),
                totalCalls |-> totalCalls,
                result |-> distributeCalls(AllocSources(rows), totalCalls)]
    /\ UNCHANGED <<sources, today, usage, store, run, recorded, overlapped, schedVars>>

NextAlloc == CallDistributeCalls

SpecAlloc == InitAlloc /\ [][NextAlloc]_vars

(* C11: when the user has no active source, a run that has got past the load of
   the sources has failed, with NoActiveSources (or with the error of the load
   itself when getUserSources threw), and it has started no feed fetch, no social
   fetch, no read or increment of the ledger and no write of content. *)
C11_NoActiveSourcesFailsFast ==
  \A r \in Runs :
    (run[r].traced /\ NoActiveSource /\ run[r].pc \notin {"idle", "loading"}) =>
      /\ run[r].pc = "failed"
      /\ run[r].error \in {"No active content sources found", "getUserSources failed"}
      /\ \A k \in 1..Len(run[r].log) : run[r].log[k].ev \in {"P:loading", "P:curation_failed"}
      /\ run[r].check = NoCheck
      /\ TotalUsage = run[r].startTotal
      /\ \A d \in Days : recorded[d] = 0
      /\ store = EmptyBag

\* a run of a user whose two sources are inactive has failed with NoActiveSources
C11_Witness ==
  \E r \in Runs :
    /\ run[r].traced /\ run[r].pc = "failed"
    /\ run[r].error = "No active content sources found"
    /\ Len(sources) = 2 /\ NoActiveSource

\* the elements of a sequence
Range(s) == { s[k] : k \in 1..Len(s) }

\* in this step the activation r calls executeCurationJob for the job j
JobStarts(r, j) ==
  /\ tick'[r].pc = "running"
  /\ tick[r].pc = "idle" \/ tick'[r].k # tick[r].k
  /\ j = tick'[r].jobsToExecute[tick'[r].k]

\* in this step the activation r of executeScheduledJobs ends
TickCompletes(r) == tick[r].pc = "running" /\ tick'[r].pc = "idle"

(* C12: executeCurationJob is called at most once for a job: no activation of
   executeScheduledJobs calls it for a job for which an activation has called it
   before, also when the interval fires while an earlier activation is still
   awaiting the job. *)
C12_JobStartedAtMostOnce ==
  [][\A r \in Runs : \A j \in 1..Len(jobHeap) :
       JobStarts(r, j) => ~jobHeap[j].started]_vars

(* C13: an activation takes every job of the list that is unexecuted and due at
   its start; when it ends, executeCurationJob has been called for each of them
   and each is marked executed, whether the call returned (after a curation, a
   denial of the quota or no source of the tier) or threw. *)
C13_DueJobsMarkedExecuted ==
  [][\A r \in Runs :
       /\ (tick[r].pc = "idle" /\ tick'[r].pc = "running") =>
            /\ tick'[r].now = clock
            /\ \A j \in Range(jobs) :
                 (~jobHeap[j].executed /\ jobHeap[j].scheduledFor <= clock)
                   => j \in Range(tick'[r].jobsToExecute)
       /\ TickCompletes(r) =>
            \A j \in Range(tick[r].jobsToExecute) :
              jobHeap'[j].executed /\ jobHeap'[j].started]_vars

\* an activation with two due jobs has called executeCurationJob for the second
\* job, which has returned, after that of the first job threw
C13_Witness ==
  \E r \in Runs :
    /\ tick[r].pc = "running" /\ tick[r].k = 2 /\ tick[r].raised = 1
    /\ jobHeap[tick[r].jobsToExecute[1]].executed
    /\ run[r].pc = "done"

\* a list without executed job scheduled 24 hours or more before the instant now,
\* that holds every unexecuted job of the list before
CleanedUp(now) ==
  /\ \A j \in Range(jobs') :
       ~(jobHeap'[j].executed /\ jobHeap'[j].scheduledFor <= now - HoursPerDay)
  /\ \A j \in Range(jobs) : ~jobHeap'[j].executed => j \in Range(jobs')

(* C14: when an activation of executeScheduledJobs ends (after its last job, or
   at once when no job is due), the list holds no executed job whose scheduled
   time is 24 hours or more before the instant the activation read at its start,
   and every unexecuted job of the list, those pushed while the activation was
   running included, is still in the list. *)
C14_CleanUpAfterTick ==
  [][/\ \A r \in Runs : TickCompletes(r) => CleanedUp(tick[r].now)
     /\ (tick' = tick /\ jobs' # jobs /\ Len(jobs') <= Len(jobs)) => CleanedUp(clock)]_vars

\* no activation is running; an executed job has been removed from the list, and an
\* unexecuted job that was pushed while an activation was running is in the list
C14_Witness ==
  /\ \A r \in Runs : tick[r].pc = "idle"
  /\ \E j \in 1..Len(jobHeap) : jobHeap[j].executed /\ j \notin Range(jobs)
  /\ \E j \in Range(jobs) : ~jobHeap[j].executed /\ jobHeap[j].pushedDuringTick

\* the awaits of curateContentForUser at which a source of sourcesToFetch is current
FetchPcs == {"tw_fetch", "tw_retry_wait", "tw_rec_read", "tw_rec_write", "tw_delay"}

(* C15: the sources a job hands to curateContentForUser, the sources that get
   calls and the source whose posts are being fetched are active rows of the
   user with the priority of the job; a job starts no feed fetch. *)
C15_JobFetchesOnlyItsTier ==
  \A r \in Runs :
    tick[r].pc = "running" =>
      LET p == jobHeap[JobOf(r)].priority
          OfTier(id) == sources[id].is_active /\ sources[id].priority = p
      IN /\ \A k \in 1..Len(run[r].twitterSources) : OfTier(run[r].twitterSources[k].id)
         /\ \A k \in 1..Len(run[r].sourcesToFetch) : OfTier(run[r].sourcesToFetch[k].source.id)
         /\ run[r].pc \in FetchPcs => OfTier(run[r].sourcesToFetch[run[r].i].source.id)
         /\ run[r].pc \notin {"feed_fetch", "feed_delay"}

\* the job of tier 2 is fetching its source while the user has an active source of
\* tier 1
C15_Witness ==
  \E r \in Runs :
    /\ tick[r].pc = "running" /\ run[r].pc = "tw_fetch"
    /\ jobHeap[JobOf(r)].priority = 2
    /\ sources[run[r].sourcesToFetch[run[r].i].source.id].priority = 2
    /\ \E k \in 1..Len(sources) : sources[k].is_active /\ sources[k].priority = 1

\* in this step scheduleContentCuration is called
Schedules == Len(jobHeap') > Len(jobHeap)

\* the three jobs a call pushes: unexecuted, of the tiers 1, 2, 3, at 09:00, 14:00
\* and 19:00 of the local clock, after the instant of the call
ThreeJobsPushed ==
  /\ Len(jobHeap') = Len(jobHeap) + 3
  /\ jobs' = jobs \o <<Len(jobHeap) + 1, Len(jobHeap) + 2, Len(jobHeap) + 3>>
  /\ \A k \in 1..3 :
       LET job == jobHeap'[Len(jobHeap) + k]
       IN /\ ~job.executed
          /\ job.priority = k
          /\ (job.scheduledFor + Offset(job.scheduledFor)) % HoursPerDay = <<9, 14, 19>>[k]
          /\ job.scheduledFor > clock

(* C16 as stated: a call of scheduleContentCuration pushes three unexecuted jobs,
   of the tiers 1, 2, 3 at 09:00, 14:00, 19:00 local time, each scheduled after
   the instant of the call and at most 24 hours after it. *)
C16_ScheduledWithin24Hours ==
  [][Schedules =>
       /\ ThreeJobsPushed
       /\ \A k \in 1..3 : jobHeap'[Len(jobHeap) + k].scheduledFor <= clock + HoursPerDay]_vars

(* C16 amended: the scheduled time is the next instant at which the local clock
   shows the hour of the tier: at most 24 hours of the local clock after the call,
   which is at most 24 hours when the local offset is the same at both instants
   and at most 25 hours when the local clock is set back in between. *)
C16_ScheduledAtNextLocalHour ==
  [][Schedules =>
       /\ ThreeJobsPushed
       /\ \A k \in 1..3 :
            LET at == jobHeap'[Len(jobHeap) + k].scheduledFor
            IN /\ (at + Offset(at)) - (clock + Offset(clock)) <= HoursPerDay
               /\ Offset(at) = Offset(clock) => at <= clock + HoursPerDay
               /\ at <= clock + HoursPerDay + 1]_vars

\* a job has just been scheduled, at 09:00 local time, for 09:00 of the next local
\* day, which is 25 hours later
C16_Witness ==
  \E j \in 1..Len(jobHeap) :
    /\ ~jobHeap[j].started
    /\ jobHeap[j].priority = 1
    /\ (clock + Offset(clock)) % HoursPerDay = 9
    /\ jobHeap[j].scheduledFor = clock + HoursPerDay + 1

(* ---- the allocator ---- *)
Allocated == call.op = "distributeCalls"

\* the calls the result gives the source of the given id (none: 0)
AllocationOf(id) ==
  SumSeq([k \in 1..Len(call.result) |->
            IF call.result[k].source.id = id THEN call.result[k].callsToUse ELSE 0])

\* the calls the result gives the sources of a tier
TierTotal(p) ==
  SumSeq([k \in 1..Len(call.result) |->
            IF call.result[k].source.priority = p THEN call.result[k].callsToUse ELSE 0])

TierCount(p) == Cardinality({ k \in 1..Len(call.sources) : call.sources[k].priority = p })

(* C17: for every source list and every totalCalls >= 0, the per-source
   allocations distributeCalls returns sum to at most totalCalls. *)
C17_AllocationsWithinTotal ==
  Allocated =>
    /\ \A k \in 1..Len(call.result) : call.result[k].callsToUse >= 0
    /\ SumSeq([k \in 1..Len(call.result) |-> call.result[k].callsToUse]) <= call.totalCalls

\* more sources in tier 1 than calls: the last source of the tier is cut off by
\* what remains
C17_Witness ==
  /\ Allocated
  /\ call.totalCalls > 0
  /\ TierCount(1) > call.totalCalls
  /\ SumSeq([k \in 1..Len(call.result) |-> call.result[k].callsToUse]) = call.totalCalls

TierSources == { k \in 1..Len(call.sources) : call.sources[k].priority \in Priorities }

\* the calls given to the sources distributeCalls goes through before source k:
\* those of a tier before its own, and those before it in the list in its own
GivenBefore(k) ==
  SumSeq([j \in 1..Len(call.sources) |->
            IF \/ call.sources[j].priority < call.sources[k].priority
               \/ call.sources[j].priority = call.sources[k].priority /\ j < k
            THEN AllocationOf(j) ELSE 0])

(* C18: for every source list and every totalCalls >= 3, every source of a tier
   (priority 1, 2 or 3) receives an allocation of at least 1 call. *)
C18_EverySourceGetsACall ==
  Allocated /\ call.totalCalls >= 3 =>
    \A k \in TierSources : AllocationOf(k) >= 1

(* C18 amended: for totalCalls >= 3 every source of a tier receives at least 1
   call when no tier holds more than one source; in general a source of a tier
   receives at least 1 call exactly when the calls given to the sources before
   it sum to less than totalCalls, and a source of no tier receives none. *)
C18_SourceGetsACallWhileCallsRemain ==
  Allocated =>
    /\ call.totalCalls >= 3 /\ (\A p \in Priorities : TierCount(p) <= 1) =>
         \A k \in TierSources : AllocationOf(k) >= 1
    /\ \A k \in TierSources : AllocationOf(k) >= 1 <=> GivenBefore(k) < call.totalCalls
    /\ \A k \in 1..Len(call.sources) : k \notin TierSources => AllocationOf(k) = 0

\* three calls for one source in each tier: each receives one
C18_Witness ==
  /\ Allocated
  /\ call.totalCalls = 3
  /\ \A p \in Priorities : TierCount(p) = 1
  /\ \A k \in TierSources : AllocationOf(k) = 1

(* C19: for every input, the calls allocated to the sources of tier 1 total at
   most max(1, floor(totalCalls * 0.50)) and those allocated to the sources of
   tier 2 total at most max(1, floor(totalCalls * 0.35)). *)
C19_TierTotalsWithinShare ==
  Allocated =>
    /\ TierTotal(1) <= Max(1, call.totalCalls \div 2)
    /\ TierTotal(2) <= Max(1, (call.totalCalls * 35) \div 100)

(* ---- the reference greedy computation ---- *)
\* the calls the i-th source of a tier gets: min(perSource, remaining) with the
\* remaining counter reduced by perSource by each source before it, down to 0
RefCalls(i, perSource, remainingAtTier) ==
  Min(perSource, Max(0, remainingAtTier - (i - 1) * perSource))

\* what a tier of n sources takes of the remaining counter
RefTierTakes(n, perSource, remainingAtTier) == Min(n * perSource, remainingAtTier)

RefPerSource(share, n) == IF n = 0 THEN 0 ELSE Max(1, share \div n)

\* the reference allocation of source k of the call
RefAllocation(k) ==
  LET T == call.totalCalls
      n1 == TierCount(1)
      n2 == TierCount(2)
      n3 == TierCount(3)
      perSource1 == RefPerSource(Max(1, T \div 2), n1)
      perSource2 == RefPerSource(Max(1, (T * 35) \div 100), n2)
      remainingAtTier2 == T - RefTierTakes(n1, perSource1, T)
      remainingAtTier3 == remainingAtTier2 - RefTierTakes(n2, perSource2, remainingAtTier2)
      perSource3 == RefPerSource(remainingAtTier3, n3)
      p == call.sources[k].priority
      i == Cardinality({ j \in 1..k : call.sources[j].priority = p })
  IN CASE p = 1 -> RefCalls(i, perSource1, T)
       [] p = 2 -> RefCalls(i, perSource2, remainingAtTier2)
       [] p = 3 -> RefCalls(i, perSource3, remainingAtTier3)
       [] OTHER -> 0

\* the sources in the order of the tiers, each tier in the order of the list
TierOrder ==
  SelectSeq(call.sources, LAMBDA s : s.priority = 1)
    \o SelectSeq(call.sources, LAMBDA s : s.priority = 2)
    \o SelectSeq(call.sources, LAMBDA s : s.priority = 3)

\* the reference result: one entry for each source that gets a call
RefResult ==
  SelectSeq([x \in 1..Len(TierOrder) |->
               [source |-> TierOrder[x], callsToUse |-> RefAllocation(TierOrder[x].id)]],
            LAMBDA en : en.callsToUse > 0)

(* C20: the result of distributeCalls equals the reference greedy computation:
   through the tiers 1, 2, 3 with a remaining counter starting at totalCalls,
   each source of tier t gets min(perSource_t, remaining); in particular two
   tier-1 sources and one tier-2 source with totalCalls = 10 get 2, 2 and 3. *)
C20_ResultEqualsReference ==
  Allocated =>
    /\ call.result = RefResult
    /\ \A k \in 1..Len(call.sources) : AllocationOf(k) = RefAllocation(k)
    /\ ( /\ Len(call.sources) = 3
         /\ call.sources[1].priority = 1
         /\ call.sources[2].priority = 1
         /\ call.sources[3].priority = 2
         /\ call.totalCalls = 10 )
       => <<AllocationOf(1), AllocationOf(2), AllocationOf(3)>> = <<2, 2, 3>>

\* the allocation of 10 calls to two tier-1 sources and one tier-2 source
C20_Witness ==
  /\ Allocated
  /\ call.totalCalls = 10
  /\ [k \in 1..Len(call.sources) |-> call.sources[k].priority] = <<1, 1, 2>>
  /\ [k \in 1..Len(call.result) |-> call.result[k].callsToUse] = <<2, 2, 3>>

(* C21: distributeCalls returns no entry when the source list is empty and when
   totalCalls = 0; every entry it returns has at least 1 call, and no source has
   two entries. *)
C21_NoEmptyEntries ==
  Allocated =>
    /\ call.sources = <<>> => call.result = <<>>
    /\ call.totalCalls = 0 => call.result = <<>>
    /\ \A k \in 1..Len(call.result) : call.result[k].callsToUse >= 1
    /\ \A j, k \in 1..Len(call.result) :
         call.result[j].source.id = call.result[k].source.id => j = k

\* tier-1 sources and no call to give: no entry; and a tier whose last source
\* is left without a call has no entry for it
C21_Witness ==
  /\ Allocated
  /\ TierCount(1) > 1
  /\ \/ call.totalCalls = 0 /\ call.result = <<>>
     \/ call.totalCalls = 1 /\ Len(call.result) = 1

\* the calls a result gives the source of the given id (none: 0)
CallsIn(result, id) ==
  SumSeq([k \in 1..Len(result) |->
            IF result[k].source.id = id THEN result[k].callsToUse ELSE 0])

\* the lists that hold the sources of srcs with the sources of each tier permuted
\* among the places of that tier
TierPermutations(srcs) ==
  { [k \in 1..Len(srcs) |-> srcs[pi[k]]] :
      pi \in { f \in [1..Len(srcs) -> 1..Len(srcs)] :
                 /\ \A i, j \in 1..Len(srcs) : f[i] = f[j] => i = j
                 /\ \A i \in 1..Len(srcs) : srcs[f[i]].priority = srcs[i].priority } }

(* C22: the allocation does not depend on the order of the sources within a
   tier: for every totalCalls, a list with the sources of a tier permuted gives
   every source the same number of calls. *)
C22_OrderIndependentWithinTier ==
  Allocated =>
    \A permuted \in TierPermutations(call.sources) :
      \A id \in 1..Len(call.sources) :
        CallsIn(distributeCalls(permuted, call.totalCalls), id) = AllocationOf(id)

(* C23: the higher priority gets the larger share: for totalCalls >= 1 and two
   non-empty tiers p < q, the calls allocated to tier p total at least those
   allocated to tier q, and are not zero. *)
C23_HigherTierGetsMore ==
  Allocated /\ call.totalCalls >= 1 =>
    \A p, q \in Priorities :
      p < q /\ TierCount(p) > 0 /\ TierCount(q) > 0 =>
        /\ TierTotal(p) >= TierTotal(q)
        /\ TierTotal(p) # 0

(* ---- persisting ---- *)
\* run r is at the return of createContentItem for the item it is saving
Persists(r) == run[r].pc = "saving" /\ run'[r] # run[r]

SavedItem(r) == run[r].allContentItems[run[r].i]

\* the upsert run r awaited has succeeded: the save loop has counted the item
Counted(r) == run'[r].savedCount = run[r].savedCount + 1

(* C24: persisting is idempotent under the key (source_id, platform_id): the
   store never holds two rows of one key, a persist of a key already stored
   leaves the one row of that key (updated), and no such persist makes the run
   fail. *)
C24_PersistIdempotent ==
  [][ /\ \A it \in BagToSet(store') : CopiesIn(it, store') = 1
      /\ \A r \in Runs :
           Persists(r) /\ BagIn(SavedItem(r), store) =>
             /\ store' = store
             /\ CopiesIn(SavedItem(r), store') = 1
             /\ run'[r].pc \in {"saving", "done"}
             /\ run'[r].error = "" ]_vars

\* both runs have saved the one item of the one feed: one row
C24_Witness ==
  /\ Len(sources) = 1
  /\ \A r \in Runs : run[r].pc = "done" /\ run[r].savedCount = 1
  /\ BagCardinality(store) = 1

(* C25: the count a curation returns is the number of items the run has newly
   added to the store: the save loop counts an item only when its key was not
   stored before, so a second curation of unchanged content returns 0. *)
C25_CountsOnlyNewItems ==
  [][ \A r \in Runs :
        Persists(r) /\ Counted(r) =>
          /\ ~BagIn(SavedItem(r), store)
          /\ BagIn(SavedItem(r), store') ]_vars

(* ---- a recordAPICall that fails ---- *)
\* run r is at the return of the read or of the write of incrementAPIUsage,
\* which has failed
RecordFails(r) ==
  /\ run[r].pc \in {"tw_rec_read", "tw_rec_write"}
  /\ run'[r] # run[r]
  /\ run'[r].pc # "tw_rec_write"
  /\ recorded' = recorded

\* the items the run holds, of the social phase or already handed to the save loop
HeldItems(s) == Range(s.contentItems) \cup Range(s.allContentItems)

(* C26: a failure to persist the increment inside recordAPICall is not
   propagated: the items of the tweets fetched for the source are appended as
   after an increment that persisted, the run goes on with the next source (or
   the save loop after the last), and it does not end failed. *)
C26_RecordFailureSwallowed ==
  /\ [][ \A r \in Runs :
           RecordFails(r) =>
             LET s == run[r]
                 src == s.sourcesToFetch[s.i].source.id
             IN /\ ~s.tweets.malformed =>
                     /\ \A k \in 1..s.tweets.n : Item(src, k) \in HeldItems(run'[r])
                     /\ Len(run'[r].contentItems) + Len(run'[r].allContentItems)
                          = Len(s.contentItems) + Len(s.allContentItems) + s.tweets.n
                /\ run'[r].pc # "failed" /\ run'[r].error = ""
                /\ IF s.i < Len(s.sourcesToFetch)
                   THEN \/ run'[r].pc = "tw_delay" /\ run'[r].i = s.i
                        \/ run'[r].pc = "tw_fetch" /\ run'[r].i = s.i + 1
                   ELSE run'[r].pc \in {"saving", "done"} ]_vars
  /\ [](\A r \in Runs :
          run[r].traced /\ CountEv(run[r].log, "record_err") > 0 =>
            /\ run[r].pc # "failed"
            /\ Ended(run[r]) =>
                 SrcsOf(run[r].log, "P:tw_fetching") = AllocatedIds(run[r]))

\* a run is done whose first source's increment failed to persist: the tweet of
\* the first source is saved and the second source was fetched
C26_Witness ==
  \E r \in Runs :
    /\ run[r].traced /\ run[r].pc = "done"
    /\ Len(run[r].sourcesToFetch) = 2
    /\ \E j \in Positions(run[r].log, "record_err") :
         /\ run[r].log[j - 1] = [ev |-> "record_call",
                                  src |-> run[r].sourcesToFetch[1].source.id, n |-> 0]
         /\ run[r].log[j + 1].ev = "P:tw_success"
    /\ Item(run[r].sourcesToFetch[1].source.id, 1) \in Range(run[r].allContentItems)
    /\ SrcsOf(run[r].log, "P:tw_fetching") = AllocatedIds(run[r])

(* ---- the reason of a denial ---- *)
\* the count stored for the day run r checks
StoredUsed(r) == IF run[r].day \in DOMAIN usage THEN usage[run[r].day] ELSE 0

(* C27: whenever canMakeAPICall denies, its reason carries the used and the
   limit counts (3 used of 3 gives "3/3"), on every path that denies. *)
C27_DenialNamesCounts ==
  [][\A r \in Runs :
       CanCallReturns(r) /\ ~run'[r].check.canCall =>
         run'[r].check.reasonCounts = <<StoredUsed(r), DAILY_LIMIT>>]_vars

(* C27 amended: when canMakeAPICall denies because the count of the day has
   reached the limit, its reason carries the used and the limit counts; when it
   denies because the read of the usage failed, its reason is "Error checking
   rate limit" and carries no count. *)
C27_LimitDenialNamesCounts ==
  [][\A r \in Runs :
       CanCallReturns(r) /\ ~run'[r].check.canCall =>
         IF run'[r].check.readOk
         THEN /\ run'[r].check.reason = "Daily limit reached"
              /\ run'[r].check.reasonCounts = <<StoredUsed(r), DAILY_LIMIT>>
              /\ StoredUsed(r) >= DAILY_LIMIT
         ELSE /\ run'[r].check.reason = "Error checking rate limit"
              /\ run'[r].check.reasonCounts = <<>>]_vars

\* a denial at 3 calls used of 3
C27_Witness ==
  \E r \in Runs :
    /\ run[r].check.readOk /\ ~run[r].check.canCall
    /\ run[r].check.reasonCounts = <<3, 3>>

(* ---- the quota under two runs ---- *)
(* C28: the quota is advisory under concurrency: a run fetches no more sources
   than the remaining calls it has read, and the calls counted for a day stay
   within the daily limit as long as no two runs have overlapped; two
   overlapping runs can read the same remaining value, and the successful
   fetches counted for the day can then exceed the limit of 3. *)
C28_QuotaHoldsWithoutOverlap ==
  /\ \A r \in Runs : Len(run[r].sourcesToFetch) <= run[r].remainingCalls
  /\ ~overlapped => \A d \in Days : CallsUsed(d) <= DAILY_LIMIT

\* two overlapping runs have read the same remaining value, each has fetched
\* its sources, and the day counts more calls than the limit
C28_Witness ==
  /\ overlapped
  /\ \A r \in Runs : run[r].pc = "done" /\ Len(run[r].sourcesToFetch) > 0
  /\ run["r1"].remainingCalls = run["r2"].remainingCalls
  /\ CallsUsed(1) > DAILY_LIMIT

(* ---- the feed parser ---- *)
Parsed == call.op = "parseRSSXML"

\* both the title and the description of the entry are empty after cleaning,
\* the description of an entry of an Atom document being its summary or content
BothEmpty(e, tag) ==
  /\ cleanText(Raw(e.title)) = <<>>
  /\ cleanText(Raw(e.description)) = <<>>
  /\ tag = "entry" /\ Raw(e.description) = <<>> => cleanText(Raw(e.content)) = <<>>

\* the guids of the entries among the first n of the list that are not empty
KeptGuids(entries, n, tag) ==
  LET first == SubSeq(entries, 1, Min(Len(entries), n))
      kept == SelectSeq(first, LAMBDA e : ~BothEmpty(e, tag))
  IN [i \in 1..Len(kept) |-> kept[i].guid]

ReturnedGuids == [i \in 1..Len(call.feed.items) |-> call.feed.items[i].guid]

(* C29: for a feed with N raw entries of which k have both title and description
   empty after cleaning, parseRSSXML returns exactly N - k items. *)
C29_ReturnsAllButEmpty ==
  Parsed =>
    Len(call.feed.items) =
      Len(call.doc.entries)
        - Cardinality({ i \in 1..Len(call.doc.entries) :
                          BothEmpty(call.doc.entries[i], call.doc.tag) })

(* C29 amended: of the N entries parseRSSXML extracts (the entry elements when
   the text holds "<feed" or the Atom namespace, the item elements otherwise),
   only the first 20 are parsed: it returns the entries among the first
   min(N, 20) whose title or description is not empty after cleaning, which are
   N - k items when N <= 20, k being the number of empty ones. *)
C29_ReturnsAllButEmptyOfFirst20 ==
  Parsed =>
    LET matches == ItemMatches(call.doc)
        tag == IF IsAtom(call.doc) THEN "entry" ELSE "item"
        N == Len(matches)
        k == Cardinality({ i \in 1..N : BothEmpty(matches[i], tag) })
        kFirst == Cardinality({ i \in 1..Min(N, RssItemCap) : BothEmpty(matches[i], tag) })
    IN /\ Len(call.feed.items) = Min(N, RssItemCap) - kFirst
       /\ N <= RssItemCap => Len(call.feed.items) = N - k

\* a document of 20 items, the first and the last of them empty: 18 returned
C29_Witness ==
  /\ Parsed
  /\ call.doc.tag = "item" /\ ~call.doc.feedMarker
  /\ Len(call.doc.entries) = RssItemCap
  /\ BothEmpty(call.doc.entries[1], "item")
  /\ BothEmpty(call.doc.entries[RssItemCap], "item")
  /\ Len(call.feed.items) = RssItemCap - 2

(* C30: parseRSSXML returns at most 20 items, and they are the entries among
   the first 20 of the document whose title or description is not empty after
   cleaning, in the order of the document. *)
C30_ReturnsKeptOfFirst20 ==
  Parsed =>
    /\ Len(call.feed.items) <= RssItemCap
    /\ ReturnedGuids = KeptGuids(call.doc.entries, RssItemCap, call.doc.tag)

(* ---- the normalizers ---- *)
Normalized == call.op = "normalize"

SocialBreakingKeywords == {"breaking", AlarmEmoji}
SocialTransferKeywords == {"transfer", "signs", "deal"}
SocialTeamKeywords == {"team", "squad", "lineup"}
FeedBreakingKeywords == {"breaking", "urgent", "confirmed"}
FeedTransferKeywords == {"transfer", "signs", "deal", "joins"}
FeedTeamKeywords == {"team", "squad", "lineup", "training"}

\* the text holds one of the keywords, in whatever case
Holds(text, keywords) == \E k \in 1..Len(text) : toLowerCase(<<text[k]>>)[1] \in keywords

FeedText == call.rssItem.title \o call.rssItem.description

SocialBreakingTrigger ==
  \/ Holds(call.tweet.text, SocialBreakingKeywords)
  \/ call.social.engagement_count > EngagementThreshold

(* C31: in both normalizers the first matching tier in the order breaking,
   transfer, team, general decides the category: a text with a breaking trigger
   is breaking whatever else it holds, a text with a transfer keyword and no
   breaking trigger is transfer even if it holds team keywords, and the breaking
   flag is true exactly when the category is breaking. *)
C31_FirstMatchingTierWins ==
  Normalized =>
    /\ SocialBreakingTrigger => call.social.content_type = "breaking"
    /\ ~SocialBreakingTrigger /\ Holds(call.tweet.text, SocialTransferKeywords)
         => call.social.content_type = "transfer"
    /\ ~SocialBreakingTrigger /\ ~Holds(call.tweet.text, SocialTransferKeywords)
         => call.social.content_type =
              (IF Holds(call.tweet.text, SocialTeamKeywords) THEN "team" ELSE "general")
    /\ call.social.is_breaking_news <=> call.social.content_type = "breaking"
    /\ Holds(FeedText, FeedBreakingKeywords) => call.feed.content_type = "breaking"
    /\ ~Holds(FeedText, FeedBreakingKeywords) /\ Holds(FeedText, FeedTransferKeywords)
         => call.feed.content_type = "transfer"
    /\ ~Holds(FeedText, FeedBreakingKeywords) /\ ~Holds(FeedText, FeedTransferKeywords)
         => call.feed.content_type =
              (IF Holds(FeedText, FeedTeamKeywords) THEN "team" ELSE "general")
    /\ call.feed.is_breaking_news <=> call.feed.content_type = "breaking"

\* a text of low engagement holding a team, a transfer and a breaking keyword, in
\* this order: breaking in both normalizers
C31_Witness ==
  /\ Normalized
  /\ call.tweet.text = <<"squad", "Transfer", "BREAKING">>
  /\ call.social.engagement_count = 0
  /\ call.social.content_type = "breaking" /\ call.social.is_breaking_news
  /\ call.feed.content_type = "breaking" /\ call.feed.is_breaking_news

(* C38: for any text, and with social engagement at most 1000, the social and
   the feed normalizer assign the same category. *)
C38_NormalizersAgree ==
  Normalized /\ call.social.engagement_count <= EngagementThreshold =>
    call.social.content_type = call.feed.content_type

(* ---- the quota of a day under runs that do not overlap ---- *)
\* the getUserTweets calls that have returned posts, over the runs
FetchedOk == SumSeq([k \in 1..2 |-> run[IF k = 1 THEN "r1" ELSE "r2"].fetchedOk])

RecordsInFlight == SumSeq([k \in 1..2 |-> RecordInFlight(run[IF k = 1 THEN "r1" ELSE "r2"])])

\* every recordAPICall that has returned has persisted its increment
LedgerWritesSucceeded == FetchedOk = SumSeq([d \in Days |-> recorded[d]]) + RecordsInFlight

\* a getUserTweets of the run is in flight, or the run is in the loop over its sources
InSocialLoop(s) ==
  s.pc \in {"tw_fetch", "tw_retry_wait", "tw_rec_read", "tw_rec_write", "tw_delay"}

(* C32: with runs that do not overlap and increments that persist, the count
   stored for the day never exceeds 3, the successful social fetches of the day
   (those counted before the runs, and those of the runs) never exceed 3, and a
   run that starts when the count is already 3 attempts no social fetch. *)
C32_DayQuotaHolds ==
  /\ ~overlapped /\ LedgerWritesSucceeded =>
       /\ CallsUsed(1) <= DAILY_LIMIT
       /\ (CallsUsed(1) - recorded[1]) + FetchedOk <= DAILY_LIMIT
  /\ \A r \in Runs :
       ~overlapped /\ run[r].pc # "idle" /\ run[r].startTotal >= DAILY_LIMIT =>
         /\ ~InSocialLoop(run[r])
         /\ run[r].sourcesToFetch = <<>>
         /\ run[r].fetchedOk = 0

\* one run has fetched the posts of two sources and brought the count from 1 to
\* 3; the next run started at 3 and has ended without a fetch
C32_Witness ==
  /\ ~overlapped /\ LedgerWritesSucceeded
  /\ \A r \in Runs : run[r].pc = "done"
  /\ run["r1"].startTotal = 1 /\ run["r1"].fetchedOk = 2
  /\ CallsUsed(1) = DAILY_LIMIT
  /\ run["r2"].startTotal = DAILY_LIMIT /\ run["r2"].fetchedOk = 0
  /\ Len(run["r2"].twitterSources) > 0

(* ---- a usage row that cannot be read ---- *)
\* the last canMakeAPICall of the run could not read the usage row
CheckReadFailed(s) == s.check # NoCheck /\ ~s.check.readOk

(* C34: the ledger fails closed: when the usage row cannot be read,
   canMakeAPICall denies and the remaining calls are 0, so the run makes no
   social fetch and no increment, and the items of its feeds are not affected:
   the run goes on to save them and does not fail. *)
C34_LedgerFailsClosed ==
  /\ \A d \in Days : ~canMakeAPICall(FALSE, d).canCall /\ getRemainingCalls(FALSE, d) = 0
  /\ \A r \in Runs :
       CheckReadFailed(run[r]) =>
         /\ ~run[r].check.canCall
         /\ ~InSocialLoop(run[r]) /\ run[r].fetchedOk = 0
         /\ run[r].pc # "failed"

(* ---- the platform of the sources handed to the Twitter client ---- *)
\* the row of content_sources of the source whose getUserTweets, retry wait,
\* recordAPICall or pause the run is at
SourceInHand(s) == sources[s.sourcesToFetch[s.i].source.id]

(* C33: on every trigger path getUserTweets is called, and the quota consumed,
   only for sources of platform twitter; a source of platform rss is never
   handed to the Twitter client. *)
C33_TwitterClientOnlyForTwitterSources ==
  \A r \in Runs :
    /\ InSocialLoop(run[r]) => SourceInHand(run[r]).platform = "twitter"
    /\ \A k \in 1..Len(run[r].sourcesToFetch) :
         sources[run[r].sourcesToFetch[k].source.id].platform = "twitter"

(* ---- the order of the fetches of a run ---- *)
FetchStarts == {"feed_fetch", "tw_fetch"}
FetchReturns == {"P:feed_success", "P:feed_failed", "tw_ok", "tw_429", "tw_err"}

\* the positions of the log at which a fetch was started, and at which one returned
StartsIn(lg) == { k \in 1..Len(lg) : lg[k].ev \in FetchStarts }
ReturnsIn(lg) == { k \in 1..Len(lg) : lg[k].ev \in FetchReturns }

(* C35: within one run the fetches are sequential and ordered: every feed fetch
   precedes every social fetch, at most one fetch of the run is in flight at
   any time (a fetch is started only when every fetch started before it has
   returned), and the social sources are fetched in non-decreasing priority
   tier. *)
C35_FetchesSequentialAndOrdered ==
  \A r \in Runs :
    run[r].traced =>
      LET lg == run[r].log
      IN /\ \A a \in Positions(lg, "tw_fetch"), b \in Positions(lg, "feed_fetch") : b < a
         /\ \A a \in StartsIn(lg) :
              Cardinality({ k \in ReturnsIn(lg) : k < a })
                = Cardinality({ k \in StartsIn(lg) : k < a })
         /\ Cardinality(StartsIn(lg)) - Cardinality(ReturnsIn(lg))
              = (IF run[r].pc \in FetchStarts THEN 1 ELSE 0)
         /\ \A a, b \in Positions(lg, "tw_fetch") :
              a < b => sources[lg[a].src].priority <= sources[lg[b].src].priority

\* a run is done that has fetched a feed and then, after the feed has returned,
\* a social source, a second time after a 429
C35_Witness ==
  \E r \in Runs :
    /\ run[r].traced /\ run[r].pc = "done"
    /\ Cardinality(Positions(run[r].log, "feed_fetch")) = 1
    /\ Cardinality(Positions(run[r].log, "tw_fetch")) = 2
    /\ Cardinality(ReturnsIn(run[r].log)) = 3

(* ---- termination ---- *)
\* the fetch attempts a source can get: the first, and one per retry
MaxAttempts == MAX_RETRIES + 1

(* C36: every run terminates: provided every await returns, a run over F feeds
   and S allocated social sources starts at most F feed fetches and at most
   3 * S social fetches, and reaches done or failed. *)
C36_RunTerminates ==
  /\ [](\A r \in Runs :
         run[r].traced =>
           /\ Cardinality(Positions(run[r].log, "feed_fetch")) <= Len(run[r].rssSources)
           /\ Cardinality(Positions(run[r].log, "tw_fetch"))
                <= MaxAttempts * Len(run[r].sourcesToFetch))
  /\ \A r \in Runs : (run[r].pc = "idle") ~> Ended(run[r])

\* a run has ended after the three attempts of each of its two social sources
C36_Witness ==
  \E r \in Runs :
    /\ run[r].traced /\ Ended(run[r])
    /\ Len(run[r].sourcesToFetch) = 2
    /\ Cardinality(Positions(run[r].log, "tw_fetch")) = MaxAttempts * 2

(* ---- the job list after the schedule is computed again ---- *)
\* the jobs of the list of the tier that are not executed
UnexecutedOfTier(p) ==
  { k \in 1..Len(jobs) : ~jobHeap[jobs[k]].executed /\ jobHeap[jobs[k]].priority = p }

(* C37: after any sequence of scheduleContentCuration calls for the user the
   job list holds at most one unexecuted job per tier, hence at most three
   unexecuted jobs. *)
C37_OneUnexecutedJobPerTier ==
  /\ \A p \in Priorities : Cardinality(UnexecutedOfTier(p)) <= 1
  /\ Cardinality(UNION { UnexecutedOfTier(p) : p \in Priorities }) <= 3

====
